---- MODULE Spec2Model ----
(***************************************************************************)
(* Provider manager of decky-qqmusic (src/backend/providers/manager.py):   *)
(* the registry, the active provider, the fallback chain, and the two      *)
(* routing requests (playable URL, lyric) with their fallback walk.        *)
(*                                                                         *)
(* Python dicts are records whose key set may vary (d.get(k, v) is Get).   *)
(* Strings that are tested with "in" (substring) are tuples of characters. *)
(* A routing request is a coroutine: each action below is the code that    *)
(* runs between two awaits.  Under Spec the registry/selection operations  *)
(* run only while no request is suspended.                                 *)
(***************************************************************************)
EXTENDS Integers, Sequences, FiniteSets, TLC

VARIABLES
    providers,       \* self._providers: insertion-ordered dict, as a sequence of provider objects
    active_id,       \* self._active_id
    fallback_ids,    \* self._fallback_ids
    raised,          \* the exception the last registry/selection call raised ("" when none)
    pc,              \* where the routing coroutine is suspended
    args,            \* the request's arguments (mid, song_name, singer)
    result,          \* local `result` of get_song_lyric_with_fallback
    original_error,  \* local `original_error` of get_song_url_with_fallback
    fb_iter,         \* the rest of the list the for loop iterates
    fb_id,           \* loop variable fb_id
    matched,         \* local `matched`
    response,        \* the value the last awaited provider call produced
    calls,           \* provider calls issued by the current request, in order
    ret,             \* the value the request returned
    config,          \* ConfigManager settings: main_provider_id, fallback_provider_ids
    login,           \* per provider id, what awaiting its get_login_status yields
    credential,      \* QQMusicProvider.credential
    has_credential,  \* local `has_credential` of QQMusicProvider.get_song_url
    is_valid,        \* local `is_valid` of QQMusicProvider.get_song_url
    file_types,      \* the file types the loop of get_song_url has still to try
    last_error,      \* local `last_error` of QQMusicProvider.get_song_url
    was_expired,     \* local `was_expired` of QQMusicProvider.get_login_status
    stored_credential, \* ConfigManager data "qqmusic_credential"
    current_qr,      \* QQMusicProvider.current_qr
    netease          \* NeteaseProvider: pyncm session, stored session, _qr_unikey

mgr == <<providers, active_id, fallback_ids>>
req == <<pc, args, result, original_error, fb_iter, fb_id, matched, response, calls, ret>>
qq == <<credential, has_credential, is_valid, file_types, last_error, was_expired>>
prov == <<stored_credential, current_qr, netease>>
env == <<config, login, qq, prov>>
vars == <<providers, active_id, fallback_ids, raised, pc, args, result, original_error,
          fb_iter, fb_id, matched, response, calls, ret, config, login,
          credential, has_credential, is_valid, file_types, last_error, was_expired,
          stored_credential, current_qr, netease>>

----------------------------------------------------------------------------
(* Bounds *)

\* longest id list handed to set_fallback_order / stored in the configuration
MaxIds == 2
\* longest song list a search returns
MaxSongs == 2
\* longest list handed to ConfigManager.set_fallback_provider_ids as a call
MaxValues == 3

----------------------------------------------------------------------------
(* Values *)

None == "None"
NoDict == [none |-> TRUE]

SEARCH_SONG == "search.song"
LYRIC_BASIC == "lyric.basic"

\* dict.get(key, default)
Get(d, key, default) == IF key \in DOMAIN d THEN d[key] ELSE default

\* d[key] = value
Put(d, key, value) == [k \in DOMAIN d \cup {key} |-> IF k = key THEN value ELSE d[k]]

MinOf(S) == CHOOSE i \in S : \A j \in S : i <= j

\* Python's `a in b` on strings: a is a contiguous part of b
StrIn(a, b) == \E i \in 0..(Len(b) - Len(a)) : SubSeq(b, i + 1, i + Len(a)) = a

\* Provider objects that can be registered.  Two objects carry the id
\* "netease": the second lacks LYRIC_BASIC.
QQMusicProvider == [id |-> "qqmusic", name |-> "QQ Music",
                    capabilities |-> {SEARCH_SONG, LYRIC_BASIC}]
NeteaseProvider == [id |-> "netease", name |-> "Netease Cloud Music",
                    capabilities |-> {SEARCH_SONG, LYRIC_BASIC}]
SearchOnlyProvider == [id |-> "netease", name |-> "netease-search",
                       capabilities |-> {SEARCH_SONG}]
LyricOnlyProvider == [id |-> "local", name |-> "local-lyrics",
                      capabilities |-> {LYRIC_BASIC}]
ProviderObjects == {QQMusicProvider, NeteaseProvider, SearchOnlyProvider, LyricOnlyProvider}
ProviderIds == {p.id : p \in ProviderObjects}

RECURSIVE SeqsUpTo(_, _)
SeqsUpTo(S, n) ==
    IF n = 0 THEN {<<>>}
    ELSE LET shorter == SeqsUpTo(S, n - 1)
         IN  shorter \cup {Append(s, x) : s \in {t \in shorter : Len(t) = n - 1}, x \in S}

IdLists == SeqsUpTo(ProviderIds, MaxIds)

\* Request arguments
Beatles == <<"B", "e", "a", "t", "l", "e", "s">>
TheBeatles == <<"T", "h", "e", " ">> \o Beatles
Wings == <<"W", "i", "n", "g", "s">>
Requests == {[mid |-> "a1", song_name |-> "Yesterday", singer |-> Beatles]}

\* What a provider's catalog can hold (mids are the provider's own)
Catalog == {[mid |-> "b41", name |-> "Yesterday", singer |-> Wings],
            [mid |-> "b42", name |-> "Yesterday", singer |-> TheBeatles],
            [mid |-> "b43", name |-> "Hey Jude", singer |-> TheBeatles]}
\* A search returns distinct songs
SongLists == {l \in SeqsUpTo(Catalog, MaxSongs) :
                \A i, j \in 1..Len(l) : l[i] = l[j] => i = j}

UrlOf(id) == "http://" \o id
LyricOf(id) == "[00:01]" \o id
ErrOf(id) == "error from " \o id

----------------------------------------------------------------------------
(* Registry helpers *)

RegisteredIds == {providers[i].id : i \in 1..Len(providers)}

\* self._providers.get(id), for a registered id
GetProvider(id) == providers[CHOOSE i \in 1..Len(providers) : providers[i].id = id]

\* MusicProvider.has_capability
HasCapability(id, cap) == cap \in GetProvider(id).capabilities

CallUrl(id, mid) == [provider |-> id, op |-> "get_song_url", mid |-> mid]
CallLyric(id, mid) == [provider |-> id, op |-> "get_song_lyric", mid |-> mid]
CallStatus(id) == [provider |-> id, op |-> "get_login_status"]
CallSearch(id, song_name, singer) ==
    [provider |-> id, op |-> "search_songs", song_name |-> song_name, singer |-> singer,
     page |-> 1, num |-> 10]

\* What a provider's get_song_url / get_song_lyric / search_songs can answer
UrlResponses(id, mid) ==
    {[success |-> TRUE, url |-> UrlOf(id), mid |-> mid],
     [success |-> TRUE, url |-> "", mid |-> mid],
     [success |-> FALSE, url |-> "", mid |-> mid, error |-> ErrOf(id)]}
LyricResponses(id, mid) ==
    {[success |-> TRUE, lyric |-> LyricOf(id), trans |-> "", mid |-> mid, qrc |-> TRUE],
     [success |-> TRUE, lyric |-> "", trans |-> "", mid |-> mid, qrc |-> TRUE],
     [success |-> FALSE, error |-> ErrOf(id), lyric |-> "", trans |-> ""]}
SearchResponses(id) ==
    {[success |-> TRUE, songs |-> l] : l \in SongLists}
    \cup {[success |-> FALSE, error |-> ErrOf(id), songs |-> <<>>],
          [success |-> FALSE, error |-> ErrOf(id),
           songs |-> <<[mid |-> "b42", name |-> "Yesterday", singer |-> TheBeatles]>>]}

----------------------------------------------------------------------------
(* Initial state: ProviderManager.__init__, no request in flight *)

IdleRequest ==
    /\ pc = "idle"
    /\ args = NoDict
    /\ result = NoDict
    /\ original_error = ""
    /\ fb_iter = <<>>
    /\ fb_id = None
    /\ matched = NoDict
    /\ response = NoDict
    /\ calls = <<>>
    /\ ret = NoDict

\* settings.json absent or empty
EmptySettings == [main_provider_id |-> None, fallback_provider_ids |-> <<>>]

\* What settings.json can hold when it is loaded: written by an earlier
\* version or by hand, its ids need not be registered nor distinct
SettingsFiles == [main_provider_id : ProviderIds \cup {None}, fallback_provider_ids : IdLists]

\* The state after construction, with `settings` what the settings file holds
\* and `data` the credential the data file holds for QQ Music
InitWith(settings, data) ==
    /\ providers = <<>>
    /\ active_id = None
    /\ fallback_ids = <<>>
    /\ raised = ""
    /\ IdleRequest
    /\ config = settings
    /\ login = [id \in ProviderIds |->
                  IF id = "qqmusic" /\ data # NoDict THEN "unasked" ELSE "logged_out"]
    /\ credential = NoDict
    /\ has_credential = FALSE
    /\ is_valid = None
    /\ file_types = <<>>
    /\ last_error = ""
    /\ was_expired = None
    /\ stored_credential = data
    /\ current_qr = None
    /\ netease = [logged_in |-> FALSE, stored |-> FALSE, qr_unikey |-> None]

\* ConfigManager with empty settings and data files; no provider holds a
\* credential
Init == InitWith(EmptySettings, NoDict)

----------------------------------------------------------------------------
(* Registry and selection *)

\* Faulty variant: a provider is appended even when its id is registered
RegisterAppends(provider) ==
    /\ providers' = Append(providers, provider)
    /\ raised' = ""
    /\ UNCHANGED <<active_id, fallback_ids>>
    /\ UNCHANGED <<req, env>>

Register(provider) ==
    /\ providers' =
         IF provider.id \in RegisteredIds
         THEN [i \in 1..Len(providers) |->
                 IF providers[i].id = provider.id THEN provider ELSE providers[i]]
         ELSE Append(providers, provider)
    /\ raised' = ""
    /\ UNCHANGED <<active_id, fallback_ids>>
    /\ UNCHANGED <<req, env>>

SetFallbackOrder(provider_ids) ==
    /\ fallback_ids' = SelectSeq(provider_ids, LAMBDA pid : pid \in RegisteredIds)
    /\ raised' = ""
    /\ UNCHANGED <<providers, active_id>>
    /\ UNCHANGED <<req, env>>

\* Faulty variant: the id is stored before it is checked
SwitchBug(provider_id) ==
    /\ active_id' = provider_id
    /\ raised' = IF provider_id \notin RegisteredIds THEN "ValueError: Unknown provider" ELSE ""
    /\ UNCHANGED <<providers, fallback_ids>>
    /\ UNCHANGED <<req, env>>

Switch(provider_id) ==
    /\ IF provider_id \notin RegisteredIds
       THEN /\ raised' = "ValueError: Unknown provider"
            /\ UNCHANGED active_id
       ELSE /\ active_id' = provider_id
            /\ raised' = ""
    /\ UNCHANGED <<providers, fallback_ids>>
    /\ UNCHANGED <<req, env>>

----------------------------------------------------------------------------
(* Stored configuration and provider login state *)

SetMainProviderId(provider_id) ==
    /\ config' = [config EXCEPT !.main_provider_id = provider_id]
    /\ UNCHANGED <<mgr, raised, req, login, qq, prov>>

DeleteMainProviderId ==
    /\ config.main_provider_id # None
    /\ config' = [config EXCEPT !.main_provider_id = None]
    /\ UNCHANGED <<mgr, raised, req, login, qq, prov>>

\* Faulty variant: the last occurrence of every id is kept
RECURSIVE DedupeKeepsLast(_)
DedupeKeepsLast(ids) ==
    IF ids = <<>> THEN <<>>
    ELSE IF \E i \in 2..Len(ids) : ids[i] = Head(ids)
         THEN DedupeKeepsLast(Tail(ids))
         ELSE <<Head(ids)>> \o DedupeKeepsLast(Tail(ids))

\* list(dict.fromkeys(ids)): the first occurrence of every id, in order
RECURSIVE Dedupe(_)
Dedupe(ids) ==
    IF ids = <<>> THEN <<>>
    ELSE LET front == SubSeq(ids, 1, Len(ids) - 1)
             last == ids[Len(ids)]
         IN  IF \E i \in 1..Len(front) : front[i] = last
             THEN Dedupe(front)
             ELSE Append(Dedupe(front), last)

SetFallbackProviderIds(provider_ids) ==
    /\ config' = [config EXCEPT !.fallback_provider_ids = Dedupe(provider_ids)]
    /\ UNCHANGED <<mgr, raised, req, login, qq, prov>>

\* The entries of a list a caller hands over: a str, or something else (a
\* number); a str entry v carries its text in v.str
Values == {[str |-> id] : id \in ProviderIds} \cup {[num |-> 7]}
ValueLists == SeqsUpTo(Values, MaxValues)

\* isinstance(pid, str)
IsStr(v) == "str" \in DOMAIN v

\* (pid for pid in provider_ids if isinstance(pid, str))
Strings(values) ==
    LET kept == SelectSeq(values, IsStr)
    IN  [i \in 1..Len(kept) |-> kept[i].str]

\* set_fallback_provider_ids as a call whose returned list the caller sees
SetFallbackProviderIdsCall(provider_ids) ==
    LET deduped == Dedupe(Strings(provider_ids))
    IN  /\ pc = "idle"
        /\ pc' = "done"
        /\ args' = [op |-> "set_fallback_provider_ids", provider_ids |-> provider_ids]
        /\ config' = [config EXCEPT !.fallback_provider_ids = deduped]
        /\ ret' = [value |-> deduped]
        /\ UNCHANGED <<result, original_error, fb_iter, fb_id, matched, response, calls>>
        /\ UNCHANGED <<mgr, raised, login, qq, prov>>

GetFallbackProviderIds ==
    /\ pc = "idle"
    /\ pc' = "done"
    /\ args' = [op |-> "get_fallback_provider_ids"]
    /\ ret' = [value |-> config.fallback_provider_ids]
    /\ UNCHANGED <<result, original_error, fb_iter, fb_id, matched, response, calls>>
    /\ UNCHANGED <<mgr, raised, env>>

DeleteFallbackProviderIds ==
    /\ config.fallback_provider_ids # <<>>
    /\ config' = [config EXCEPT !.fallback_provider_ids = <<>>]
    /\ UNCHANGED <<mgr, raised, req, login, qq, prov>>

\* What awaiting a provider's get_login_status comes to for the manager:
\* "logged_in" when it reports logged_in = true; "logged_out" when it reports
\* logged_in = false or raises (ensure_provider_logged_in answers False to
\* both)
LoginStatuses == {"logged_in", "logged_out"}

\* The same with the raising status check kept apart
LoginOutcomes == LoginStatuses \cup {"raises"}

\* A registered provider's credential state changes (login, logout, expiry,
\* backend failure).  Providers that are not registered are never asked.
LoginStatusChanges(id, status) ==
    /\ id \in RegisteredIds
    /\ login[id] # status
    /\ login' = [login EXCEPT ![id] = status]
    /\ UNCHANGED <<mgr, raised, req, config, qq, prov>>

\* ensure_provider_logged_in: bool(status.get("logged_in")), False when the
\* status check raises
EnsureProviderLoggedIn(id) == login[id] = "logged_in"

----------------------------------------------------------------------------
(* apply_provider_config, get_provider_selection, get_capabilities.  Each   *)
(* runs to completion before another operation starts; `calls` lists the     *)
(* get_login_status calls it awaited.                                        *)

\* all_providers(), as ids
RegisteredIdSeq == [i \in 1..Len(providers) |-> providers[i].id]

StatusCalls(ids) == [i \in 1..Len(ids) |-> CallStatus(ids[i])]

\* `if main_id:`
MainConfigured == config.main_provider_id \notin {None, ""}

\* The ids the scan of line 214 asks, up to the first that is logged in
ScannedIds ==
    LET ids == RegisteredIdSeq
        logged == {i \in 1..Len(ids) : EnsureProviderLoggedIn(ids[i])}
    IN  IF logged = {} THEN ids ELSE SubSeq(ids, 1, MinOf(logged))

\* Faulty variant: the configured main provider is ignored, the scan decides
ApplyMainProviderScanOnly ==
    IF ScannedIds # <<>> /\ EnsureProviderLoggedIn(ScannedIds[Len(ScannedIds)])
    THEN ScannedIds[Len(ScannedIds)]
    ELSE active_id

\* Faulty variant: the configured main id is handed to switch unchecked
ApplySwitchArgUnchecked ==
    IF MainConfigured
    THEN config.main_provider_id
    ELSE IF ScannedIds # <<>> /\ EnsureProviderLoggedIn(ScannedIds[Len(ScannedIds)])
         THEN ScannedIds[Len(ScannedIds)]
         ELSE None

\* The id apply_provider_config hands to switch (lines 211, 216); None when
\* it does not call switch
ApplySwitchArg ==
    LET main_id == config.main_provider_id
    IN  IF MainConfigured
        THEN IF main_id \in RegisteredIds /\ EnsureProviderLoggedIn(main_id)
             THEN main_id ELSE None
        ELSE IF ScannedIds # <<>> /\ EnsureProviderLoggedIn(ScannedIds[Len(ScannedIds)])
             THEN ScannedIds[Len(ScannedIds)]
             ELSE None

\* switch raises and apply_provider_config ends there (lines 48-50)
ApplyRaises == ApplySwitchArg # None /\ ApplySwitchArg \notin RegisteredIds

\* self._active_id after "handle the main provider" (lines 207-218)
ApplyMainProvider ==
    IF ApplySwitchArg # None /\ ApplySwitchArg \in RegisteredIds
    THEN ApplySwitchArg ELSE active_id

\* The configured fallback ids whose provider is asked for its login status
\* (lines 222-226), given the active id
ApplyCheckedIds(new_active) ==
    SelectSeq(config.fallback_provider_ids,
              LAMBDA fb : fb # new_active /\ fb \in RegisteredIds)

\* Faulty variant: fallback providers are not asked whether they are logged in
ApplyFallbackIdsNoLoginCheck(new_active) ==
    SelectSeq(config.fallback_provider_ids,
              LAMBDA fb : fb # new_active /\ fb \in RegisteredIds)

\* The local list `fallback_ids` handed to set_fallback_order (lines 221-228)
ApplyFallbackIds(new_active) ==
    SelectSeq(ApplyCheckedIds(new_active), EnsureProviderLoggedIn)

ApplyProviderConfig ==
    LET main_id == config.main_provider_id
        new_active == ApplyMainProvider
        main_calls == IF MainConfigured
                      THEN IF main_id \in RegisteredIds THEN <<main_id>> ELSE <<>>
                      ELSE ScannedIds
    IN  /\ pc = "idle"
        /\ active_id' = new_active
        /\ fallback_ids' = IF ApplyRaises THEN fallback_ids
                           ELSE SelectSeq(ApplyFallbackIds(new_active),
                                          LAMBDA pid : pid \in RegisteredIds)
        /\ raised' = IF ApplyRaises THEN "ValueError: Unknown provider" ELSE ""
        /\ pc' = "done"
        /\ calls' = StatusCalls(IF ApplyRaises THEN main_calls
                                ELSE main_calls \o ApplyCheckedIds(new_active))
        /\ ret' = NoDict
        /\ UNCHANGED providers
        /\ UNCHANGED <<args, result, original_error, fb_iter, fb_id, matched, response>>
        /\ UNCHANGED env

\* mainProvider of get_provider_selection (lines 240-242)
SelectionMainId ==
    IF active_id # None /\ active_id \in RegisteredIds /\ EnsureProviderLoggedIn(active_id)
    THEN active_id ELSE None

\* The configured fallback ids get_provider_selection asks (lines 245-249)
SelectionCheckedIds ==
    SelectSeq(config.fallback_provider_ids,
              LAMBDA fb : fb # SelectionMainId /\ fb \in RegisteredIds)

\* Faulty variant: the query stores the list it reports as the fallback chain
GetProviderSelectionStores ==
    /\ pc = "idle"
    /\ pc' = "done"
    /\ calls' = StatusCalls((IF active_id # None /\ active_id \in RegisteredIds
                             THEN <<active_id>> ELSE <<>>) \o SelectionCheckedIds)
    /\ ret' = [success |-> TRUE,
               mainProvider |-> SelectionMainId,
               fallbackProviders |-> SelectSeq(SelectionCheckedIds, EnsureProviderLoggedIn)]
    /\ fallback_ids' = SelectSeq(SelectionCheckedIds, EnsureProviderLoggedIn)
    /\ UNCHANGED <<args, result, original_error, fb_iter, fb_id, matched, response>>
    /\ UNCHANGED <<providers, active_id, raised, env>>

GetProviderSelection ==
    /\ pc = "idle"
    /\ pc' = "done"
    /\ calls' = StatusCalls((IF active_id # None /\ active_id \in RegisteredIds
                             THEN <<active_id>> ELSE <<>>) \o SelectionCheckedIds)
    /\ ret' = [success |-> TRUE,
               mainProvider |-> SelectionMainId,
               fallbackProviders |-> SelectSeq(SelectionCheckedIds, EnsureProviderLoggedIn)]
    /\ UNCHANGED <<args, result, original_error, fb_iter, fb_id, matched, response>>
    /\ UNCHANGED <<mgr, raised, env>>

NoProviderPayload == [provider |-> None, capabilities |-> {}]

\* Faulty variant: the first registered provider is reported, not the active one
GetCapabilitiesFirstRegistered ==
    /\ pc = "idle"
    /\ pc' = "done"
    /\ ret' = IF active_id = None \/ active_id \notin RegisteredIds
              THEN NoProviderPayload
              ELSE [provider |-> [id |-> providers[1].id, name |-> providers[1].name],
                    capabilities |-> providers[1].capabilities]
    /\ UNCHANGED <<args, result, original_error, fb_iter, fb_id, matched, response, calls>>
    /\ UNCHANGED <<mgr, raised, env>>

GetCapabilities ==
    /\ pc = "idle"
    /\ pc' = "done"
    /\ ret' = IF active_id = None \/ active_id \notin RegisteredIds
              THEN NoProviderPayload
              ELSE [provider |-> [id |-> GetProvider(active_id).id,
                                  name |-> GetProvider(active_id).name],
                    capabilities |-> GetProvider(active_id).capabilities]
    /\ UNCHANGED <<args, result, original_error, fb_iter, fb_id, matched, response, calls>>
    /\ UNCHANGED <<mgr, raised, env>>

\* list_providers_info: one entry per value of self._providers, in the
\* dict's order
ListProvidersInfo ==
    /\ pc = "idle"
    /\ pc' = "done"
    /\ ret' = [providers_info |->
                 [i \in 1..Len(providers) |->
                    [id |-> providers[i].id, name |-> providers[i].name,
                     capabilities |-> providers[i].capabilities]]]
    /\ UNCHANGED <<args, result, original_error, fb_iter, fb_id, matched, response, calls>>
    /\ UNCHANGED <<mgr, raised, env>>

----------------------------------------------------------------------------
(* Cross-catalog matching: _match_song_in_provider after search_songs returned *)

\* Truth value of d.get(key) for a bool / for a str
IsTrue(d, key) == Get(d, key, FALSE)
NonEmpty(d, key) == Get(d, key, "") # ""

\* Faulty variant: the name-only rule is tried first
MatchSongNameFirst(search, song_name, singer) ==
    LET songs == Get(search, "songs", <<>>)
        by_name == {i \in 1..Len(songs) : Get(songs[i], "name", None) = song_name}
    IN  IF ~IsTrue(search, "success") \/ songs = <<>> THEN NoDict
        ELSE IF by_name # {} THEN songs[MinOf(by_name)]
        ELSE NoDict

MatchSong(search, song_name, singer) ==
    LET songs == Get(search, "songs", <<>>)
        by_both == {i \in 1..Len(songs) :
                      /\ Get(songs[i], "name", None) = song_name
                      /\ StrIn(singer, Get(songs[i], "singer", <<>>))}
        by_name == {i \in 1..Len(songs) : Get(songs[i], "name", None) = song_name}
    IN  IF ~IsTrue(search, "success") \/ songs = <<>> THEN NoDict
        ELSE IF by_both # {} THEN songs[MinOf(by_both)]
        ELSE IF by_name # {} THEN songs[MinOf(by_name)]
        ELSE NoDict

----------------------------------------------------------------------------
(* get_song_url_with_fallback *)

\* Faulty variant: the loop runs over the list from its end
RECURSIVE UrlNextCandidateFromEnd(_)
UrlNextCandidateFromEnd(iter) ==
    IF iter = <<>> THEN <<>>
    ELSE LET last == iter[Len(iter)]
             front == SubSeq(iter, 1, Len(iter) - 1)
         IN  IF \/ last = active_id
                \/ last \notin RegisteredIds
                \/ ~HasCapability(last, SEARCH_SONG)
             THEN UrlNextCandidateFromEnd(front)
             ELSE <<last>> \o front

\* Faulty variant: the SEARCH_SONG gate is missing
RECURSIVE UrlNextCandidateNoGate(_)
UrlNextCandidateNoGate(iter) ==
    IF iter = <<>> THEN <<>>
    ELSE IF \/ Head(iter) = active_id
            \/ Head(iter) \notin RegisteredIds
         THEN UrlNextCandidateNoGate(Tail(iter))
         ELSE iter

\* Faulty variant: the active id is not skipped
RECURSIVE UrlNextCandidateNoSkip(_)
UrlNextCandidateNoSkip(iter) ==
    IF iter = <<>> THEN <<>>
    ELSE IF \/ Head(iter) \notin RegisteredIds
            \/ ~HasCapability(Head(iter), SEARCH_SONG)
         THEN UrlNextCandidateNoSkip(Tail(iter))
         ELSE iter

\* The for loop up to its next await: the rest of the iteration, starting at
\* the first id whose provider is searched (<<>> when the loop falls through)
RECURSIVE UrlNextCandidate(_)
UrlNextCandidate(iter) ==
    IF iter = <<>> THEN <<>>
    ELSE IF \/ Head(iter) = active_id
            \/ Head(iter) \notin RegisteredIds
            \/ ~HasCapability(Head(iter), SEARCH_SONG)
         THEN UrlNextCandidate(Tail(iter))
         ELSE iter

UrlFailure(error) ==
    LET r == [success |-> FALSE, error |-> error, url |-> "", mid |-> args.mid]
    IN  IF active_id # None THEN Put(r, "provider", active_id) ELSE r

\* Faulty variant: on exhaustion the last fallback's error is reported
UrlWalkLastError(iter, error) ==
    LET rest == UrlNextCandidate(iter)
    IN  IF rest = <<>>
        THEN /\ pc' = "done"
             /\ ret' = UrlFailure(IF fb_id # None THEN ErrOf(fb_id) ELSE error)
             /\ original_error' = ""
             /\ fb_iter' = <<>>
             /\ fb_id' = None
             /\ UNCHANGED calls
        ELSE /\ pc' = "url_search"
             /\ ret' = NoDict
             /\ original_error' = error
             /\ fb_iter' = Tail(rest)
             /\ fb_id' = Head(rest)
             /\ calls' = Append(calls, CallSearch(Head(rest), args.song_name, args.singer))

\* Continue the walk over `iter`; `error` is original_error
UrlWalk(iter, error) ==
    LET rest == UrlNextCandidate(iter)
    IN  IF rest = <<>>
        THEN /\ pc' = "done"
             /\ ret' = UrlFailure(error)
             /\ original_error' = ""
             /\ fb_iter' = <<>>
             /\ fb_id' = None
             /\ UNCHANGED calls
        ELSE /\ pc' = "url_search"
             /\ ret' = NoDict
             /\ original_error' = error
             /\ fb_iter' = Tail(rest)
             /\ fb_id' = Head(rest)
             /\ calls' = Append(calls, CallSearch(Head(rest), args.song_name, args.singer))

GetSongUrlWithFallback(a) ==
    /\ pc = "idle"
    /\ args' = a
    /\ IF active_id = None
       THEN /\ pc' = "done"
            /\ ret' = [success |-> FALSE, error |-> "No active provider",
                       url |-> "", mid |-> a.mid]
            /\ UNCHANGED calls
       ELSE /\ pc' = "url_primary"
            /\ calls' = <<CallUrl(active_id, a.mid)>>
            /\ UNCHANGED ret
    /\ UNCHANGED <<result, original_error, fb_iter, fb_id, matched, response>>
    /\ UNCHANGED <<mgr, raised, env>>

\* Faulty variant: the early return on a usable answer is missing
UrlPrimaryReturnNoEarlyReturn(resp) ==
    /\ pc = "url_primary"
    /\ response' = resp
    /\ UrlWalk(fallback_ids, Get(resp, "error", "Unknown error"))
    /\ UNCHANGED <<args, result, matched>>
    /\ UNCHANGED <<mgr, raised, env>>

UrlPrimaryReturn(resp) ==
    /\ pc = "url_primary"
    /\ response' = resp
    /\ IF IsTrue(resp, "success") /\ NonEmpty(resp, "url")
       THEN /\ pc' = "done"
            /\ ret' = Put(resp, "provider", active_id)
            /\ UNCHANGED <<original_error, fb_iter, fb_id, calls>>
       ELSE UrlWalk(fallback_ids, Get(resp, "error", "Unknown error"))
    /\ UNCHANGED <<args, result, matched>>
    /\ UNCHANGED <<mgr, raised, env>>

\* Faulty variant: the fallback provider is asked for the caller's mid
UrlSearchReturnCallerMid(resp) ==
    /\ pc = "url_search"
    /\ response' = resp
    /\ matched' = MatchSong(resp, args.song_name, args.singer)
    /\ IF matched' = NoDict
       THEN UrlWalk(fb_iter, original_error)
       ELSE /\ pc' = "url_fetch"
            /\ calls' = Append(calls, CallUrl(fb_id, args.mid))
            /\ UNCHANGED <<ret, original_error, fb_iter, fb_id>>
    /\ UNCHANGED <<args, result>>
    /\ UNCHANGED <<mgr, raised, env>>

UrlSearchReturn(resp) ==
    /\ pc = "url_search"
    /\ response' = resp
    /\ matched' = MatchSong(resp, args.song_name, args.singer)
    /\ IF matched' = NoDict
       THEN UrlWalk(fb_iter, original_error)
       ELSE /\ pc' = "url_fetch"
            /\ calls' = Append(calls, CallUrl(fb_id, Get(matched', "mid", "")))
            /\ UNCHANGED <<ret, original_error, fb_iter, fb_id>>
    /\ UNCHANGED <<args, result>>
    /\ UNCHANGED <<mgr, raised, env>>

\* Faulty variant: the fallback provider that served the request is made the
\* active provider
UrlFetchReturnPromotes(resp) ==
    /\ pc = "url_fetch"
    /\ response' = resp
    /\ IF IsTrue(resp, "success") /\ NonEmpty(resp, "url")
       THEN /\ pc' = "done"
            /\ ret' = LET tagged == Put(resp, "fallback_provider", fb_id)
                          orig == IF active_id # None
                                  THEN Put(tagged, "original_provider", active_id)
                                  ELSE tagged
                      IN  Put(orig, "matched_song", matched)
            /\ original_error' = ""
            /\ fb_iter' = <<>>
            /\ fb_id' = None
            /\ active_id' = fb_id
            /\ UNCHANGED calls
       ELSE UrlWalk(fb_iter, original_error) /\ UNCHANGED active_id
    /\ matched' = NoDict
    /\ UNCHANGED <<args, result>>
    /\ UNCHANGED <<providers, fallback_ids, raised, env>>

UrlFetchReturn(resp) ==
    /\ pc = "url_fetch"
    /\ response' = resp
    /\ IF IsTrue(resp, "success") /\ NonEmpty(resp, "url")
       THEN /\ pc' = "done"
            /\ ret' = LET tagged == Put(resp, "fallback_provider", fb_id)
                          orig == IF active_id # None
                                  THEN Put(tagged, "original_provider", active_id)
                                  ELSE tagged
                      IN  Put(orig, "matched_song", matched)
            /\ original_error' = ""
            /\ fb_iter' = <<>>
            /\ fb_id' = None
            /\ UNCHANGED calls
       ELSE UrlWalk(fb_iter, original_error)
    /\ matched' = NoDict
    /\ UNCHANGED <<args, result>>
    /\ UNCHANGED <<mgr, raised, env>>

----------------------------------------------------------------------------
(* get_song_lyric_with_fallback *)

\* Faulty variant: the LYRIC_BASIC gate is missing
RECURSIVE LyricNextCandidateNoGate(_)
LyricNextCandidateNoGate(iter) ==
    IF iter = <<>> THEN <<>>
    ELSE IF \/ Head(iter) = active_id
            \/ Head(iter) \notin RegisteredIds
            \/ ~HasCapability(Head(iter), SEARCH_SONG)
         THEN LyricNextCandidateNoGate(Tail(iter))
         ELSE iter

RECURSIVE LyricNextCandidate(_)
LyricNextCandidate(iter) ==
    IF iter = <<>> THEN <<>>
    ELSE IF \/ Head(iter) = active_id
            \/ Head(iter) \notin RegisteredIds
            \/ ~HasCapability(Head(iter), LYRIC_BASIC)
            \/ ~HasCapability(Head(iter), SEARCH_SONG)
         THEN LyricNextCandidate(Tail(iter))
         ELSE iter

\* Continue the walk over `iter`; `primary` is the local `result`
LyricWalk(iter, primary) ==
    LET rest == LyricNextCandidate(iter)
    IN  IF rest = <<>>
        THEN /\ pc' = "done"
             /\ ret' = primary
             /\ result' = NoDict
             /\ fb_iter' = <<>>
             /\ fb_id' = None
             /\ UNCHANGED calls
        ELSE /\ pc' = "lyric_search"
             /\ ret' = NoDict
             /\ result' = primary
             /\ fb_iter' = Tail(rest)
             /\ fb_id' = Head(rest)
             /\ calls' = Append(calls, CallSearch(Head(rest), args.song_name, args.singer))

\* Faulty variant: with no active provider the first registered provider is asked
GetSongLyricWithFallbackAnyProvider(a) ==
    /\ pc = "idle"
    /\ args' = a
    /\ IF active_id = None /\ providers = <<>>
       THEN /\ pc' = "done"
            /\ ret' = [success |-> FALSE, error |-> "No active provider",
                       lyric |-> "", trans |-> ""]
            /\ UNCHANGED calls
       ELSE /\ pc' = "lyric_primary"
            /\ calls' = <<CallLyric(IF active_id = None THEN providers[1].id ELSE active_id,
                                    a.mid)>>
            /\ UNCHANGED ret
    /\ UNCHANGED <<result, original_error, fb_iter, fb_id, matched, response>>
    /\ UNCHANGED <<mgr, raised, env>>

GetSongLyricWithFallback(a) ==
    /\ pc = "idle"
    /\ args' = a
    /\ IF active_id = None
       THEN /\ pc' = "done"
            /\ ret' = [success |-> FALSE, error |-> "No active provider",
                       lyric |-> "", trans |-> ""]
            /\ UNCHANGED calls
       ELSE /\ pc' = "lyric_primary"
            /\ calls' = <<CallLyric(active_id, a.mid)>>
            /\ UNCHANGED ret
    /\ UNCHANGED <<result, original_error, fb_iter, fb_id, matched, response>>
    /\ UNCHANGED <<mgr, raised, env>>

LyricPrimaryReturn(resp) ==
    /\ pc = "lyric_primary"
    /\ response' = resp
    /\ IF IsTrue(resp, "success") /\ NonEmpty(resp, "lyric")
       THEN /\ pc' = "done"
            /\ ret' = resp
            /\ UNCHANGED <<result, fb_iter, fb_id, calls>>
       ELSE LyricWalk(fallback_ids, resp)
    /\ UNCHANGED <<args, original_error, matched>>
    /\ UNCHANGED <<mgr, raised, env>>

LyricSearchReturn(resp) ==
    /\ pc = "lyric_search"
    /\ response' = resp
    /\ matched' = MatchSong(resp, args.song_name, args.singer)
    /\ IF matched' = NoDict
       THEN LyricWalk(fb_iter, result)
       ELSE /\ pc' = "lyric_fetch"
            /\ calls' = Append(calls, CallLyric(fb_id, Get(matched', "mid", "")))
            /\ UNCHANGED <<ret, result, fb_iter, fb_id>>
    /\ UNCHANGED <<args, original_error>>
    /\ UNCHANGED <<mgr, raised, env>>

LyricFetchReturn(resp) ==
    /\ pc = "lyric_fetch"
    /\ response' = resp
    /\ IF IsTrue(resp, "success") /\ NonEmpty(resp, "lyric")
       THEN /\ pc' = "done"
            /\ ret' = LET tagged == Put(resp, "fallback_provider", fb_id)
                      IN  IF active_id # None
                          THEN Put(tagged, "original_provider", active_id)
                          ELSE tagged
            /\ result' = NoDict
            /\ fb_iter' = <<>>
            /\ fb_id' = None
            /\ UNCHANGED calls
       ELSE LyricWalk(fb_iter, result)
    /\ matched' = NoDict
    /\ UNCHANGED <<args, original_error>>
    /\ UNCHANGED <<mgr, raised, env>>

\* The caller has received `ret`; the coroutine's frame is gone
Return ==
    /\ pc = "done"
    /\ pc' = "idle"
    /\ args' = NoDict
    /\ result' = NoDict
    /\ original_error' = ""
    /\ fb_iter' = <<>>
    /\ fb_id' = None
    /\ matched' = NoDict
    /\ response' = NoDict
    /\ calls' = <<>>
    /\ ret' = NoDict
    /\ UNCHANGED <<mgr, raised, env>>

----------------------------------------------------------------------------
(* QQMusicProvider (src/backend/providers/qqmusic.py): QR login, logout,    *)
(* get_login_status, get_song_url and _ensure_credential_valid.  `calls`    *)
(* lists the backend calls of the call in flight, in order; a               *)
(* song.get_song_urls request is listed with the credential it was given.   *)
(* The messages are English renderings of the source's.                     *)

\* A Credential object: whether it holds a musicid, whether the backend
\* regards it as expired, whether it can be refreshed
Credentials == [musicid : {"", "10001"}, expired : BOOLEAN, refreshable : BOOLEAN]

\* credential.has_musicid()
HasMusicId(c) == c.musicid # ""

\* json.loads(credential.as_json()): what save_credential stores
StoredAs(c) == [musicid |-> c.musicid]

\* Credential.from_cookies_dict(data): the stored identity; what the backend
\* makes of its age is not stored
LoadedCredentials(data) == {c \in Credentials : c.musicid = data.musicid}

\* The credentials a finished QR login can hand out
QrCredentials == {c \in Credentials : ~c.expired}

\* QRCodeLoginEvents
QrEvents == {"SCAN", "CONF", "TIMEOUT", "DONE", "REFUSE", "OTHER"}

status_map(event) ==
    CASE event = "SCAN" -> "waiting"
      [] event = "CONF" -> "scanned"
      [] event = "TIMEOUT" -> "timeout"
      [] event = "DONE" -> "success"
      [] event = "REFUSE" -> "refused"
      [] OTHER -> "unknown"

\* What login.check_qrcode can answer: an event with or without a credential
CheckQrcodeOutcomes ==
    {[event |-> e, credential |-> c] : e \in QrEvents, c \in QrCredentials \cup {NoDict}}
    \cup {[raises |-> "timeout"]}

QualityPreferences == {None, "high", "balanced", "compat", "lossless"}

high_profile == <<"MP3_320", "OGG_192", "MP3_128", "ACC_192", "ACC_96", "ACC_48">>
balanced_profile == <<"OGG_192", "MP3_128", "ACC_192", "ACC_96", "ACC_48">>
compat_profile == <<"MP3_128", "ACC_96", "ACC_48", "OGG_192">>

pick_order(pref, logged_in) ==
    LET wanted == IF pref = None THEN "auto" ELSE pref
        pref_normalized == IF wanted \in {"auto", "high", "balanced", "compat"}
                           THEN wanted ELSE "auto"
    IN  IF pref_normalized = "high"
        THEN IF logged_in THEN high_profile ELSE balanced_profile
        ELSE IF pref_normalized = "balanced" THEN balanced_profile
        ELSE IF pref_normalized = "compat" THEN compat_profile
        ELSE IF logged_in THEN high_profile ELSE balanced_profile

CallSongUrls(mid, file_type, cred) ==
    [op |-> "get_song_urls", mid |-> mid, file_type |-> file_type, credential |-> cred]

\* A call on the credential object or on the login backend
CallBackend(op) == [op |-> op]

\* What song.get_song_urls can do: answer a url, answer none, or raise
SongUrlsOutcomes ==
    {[url |-> "http://qq/a1"], [url |-> ""], [raises |-> "VIP only"], [raises |-> "timeout"]}

\* "vip" in last_error.lower()
IsVipError(error) == error = "VIP only"

\* login after provider `id` changed its credential state: what its
\* get_login_status yields is open until it is awaited again
Unasked(id) == [login EXCEPT ![id] = "unasked"]

\* login after provider `id` answered get_login_status
Reported(id, logged_in) ==
    [login EXCEPT ![id] = IF logged_in THEN "logged_in" ELSE "logged_out"]

\* The provider operation that is in flight
Op(provider, op) == [provider |-> provider, op |-> op]

locals == <<has_credential, is_valid, file_types, last_error, was_expired>>
frame == <<result, original_error, fb_iter, fb_id, matched>>

\* The backend comes to regard the credential as expired
CredentialAges(refreshable) ==
    /\ pc = "idle"
    /\ credential # NoDict
    /\ credential' = [credential EXCEPT !.expired = TRUE, !.refreshable = refreshable]
    /\ credential' # credential
    /\ login' = Unasked("qqmusic")
    /\ UNCHANGED <<locals, prov>>
    /\ UNCHANGED <<mgr, raised, req, config>>

\* get_qr_code up to its await
GetQrCode ==
    /\ pc = "idle"
    /\ args' = Op("qqmusic", "get_qr_code")
    /\ pc' = "qq_get_qrcode"
    /\ calls' = <<CallBackend("get_qrcode")>>
    /\ UNCHANGED <<frame, response, ret>>
    /\ UNCHANGED <<mgr, raised, env>>

\* login.get_qrcode returned a QR code or raised (lines 198-210)
GetQrcodeReturn(outcome) ==
    /\ pc = "qq_get_qrcode"
    /\ response' = [outcome |-> outcome]
    /\ pc' = "done"
    /\ IF outcome = "returns"
       THEN /\ current_qr' = "qr"
            /\ ret' = [success |-> TRUE, qr_data |-> "qr", login_type |-> "qq"]
       ELSE /\ UNCHANGED current_qr
            /\ ret' = [success |-> FALSE, error |-> "get_qrcode failed"]
    /\ UNCHANGED <<stored_credential, netease>>
    /\ UNCHANGED <<args, frame, calls>>
    /\ UNCHANGED <<mgr, raised, config, login, qq>>

\* check_qr_status up to its await
CheckQrStatus ==
    /\ pc = "idle"
    /\ args' = Op("qqmusic", "check_qr_status")
    /\ IF current_qr = None
       THEN /\ pc' = "done"
            /\ ret' = [success |-> FALSE, error |-> "no QR code available"]
            /\ UNCHANGED calls
       ELSE /\ pc' = "qq_check_qrcode"
            /\ calls' = <<Put(CallBackend("check_qrcode"), "qr", current_qr)>>
            /\ UNCHANGED ret
    /\ UNCHANGED <<frame, response>>
    /\ UNCHANGED <<mgr, raised, env>>

\* Faulty variant: a finished login leaves the QR code pending
CheckQrcodeReturnKeepsQr(outcome) ==
    /\ pc = "qq_check_qrcode"
    /\ response' = outcome
    /\ pc' = "done"
    /\ IF "raises" \in DOMAIN outcome
       THEN /\ ret' = [success |-> FALSE, error |-> outcome.raises]
            /\ UNCHANGED <<credential, stored_credential, current_qr, login>>
       ELSE IF outcome.event = "DONE" /\ outcome.credential # NoDict
       THEN /\ credential' = outcome.credential
            /\ stored_credential' = StoredAs(outcome.credential)
            /\ UNCHANGED current_qr
            /\ login' = Unasked("qqmusic")
            /\ ret' = [success |-> TRUE, status |-> status_map(outcome.event),
                       logged_in |-> TRUE, musicid |-> outcome.credential.musicid]
       ELSE /\ ret' = [success |-> TRUE, status |-> status_map(outcome.event)]
            /\ UNCHANGED <<credential, stored_credential, current_qr, login>>
    /\ UNCHANGED <<locals, netease>>
    /\ UNCHANGED <<args, frame, calls>>
    /\ UNCHANGED <<mgr, raised, config>>

\* login.check_qrcode returned an event or raised (lines 217-245)
CheckQrcodeReturn(outcome) ==
    /\ pc = "qq_check_qrcode"
    /\ response' = outcome
    /\ pc' = "done"
    /\ IF "raises" \in DOMAIN outcome
       THEN /\ ret' = [success |-> FALSE, error |-> outcome.raises]
            /\ UNCHANGED <<credential, stored_credential, current_qr, login>>
       ELSE IF outcome.event = "DONE" /\ outcome.credential # NoDict
       THEN /\ credential' = outcome.credential
            /\ stored_credential' = StoredAs(outcome.credential)
            /\ current_qr' = None
            /\ login' = Unasked("qqmusic")
            /\ ret' = [success |-> TRUE, status |-> status_map(outcome.event),
                       logged_in |-> TRUE, musicid |-> outcome.credential.musicid]
       ELSE /\ ret' = [success |-> TRUE, status |-> status_map(outcome.event)]
            /\ UNCHANGED <<credential, stored_credential, current_qr, login>>
    /\ UNCHANGED <<locals, netease>>
    /\ UNCHANGED <<args, frame, calls>>
    /\ UNCHANGED <<mgr, raised, config>>

\* Faulty variant: the stored credential survives the logout
LogoutKeepsStored ==
    /\ pc = "idle"
    /\ pc' = "done"
    /\ args' = Op("qqmusic", "logout")
    /\ credential' = NoDict
    /\ current_qr' = None
    /\ UNCHANGED stored_credential
    /\ login' = Unasked("qqmusic")
    /\ ret' = [success |-> TRUE]
    /\ UNCHANGED <<locals, netease>>
    /\ UNCHANGED <<frame, response, calls>>
    /\ UNCHANGED <<mgr, raised, config>>

Logout ==
    /\ pc = "idle"
    /\ pc' = "done"
    /\ args' = Op("qqmusic", "logout")
    /\ credential' = NoDict
    /\ current_qr' = None
    /\ stored_credential' = NoDict
    /\ login' = Unasked("qqmusic")
    /\ ret' = [success |-> TRUE]
    /\ UNCHANGED <<locals, netease>>
    /\ UNCHANGED <<frame, response, calls>>
    /\ UNCHANGED <<mgr, raised, config>>

\* Lines 509-515: pick the file types and await the first request
StartRequests(logged_in, valid, cred) ==
    LET order == pick_order(args.preferred_quality, logged_in)
    IN  /\ has_credential' = logged_in
        /\ is_valid' = valid
        /\ file_types' = Tail(order)
        /\ last_error' = ""
        /\ pc' = "qq_get_song_urls"
        /\ calls' = Append(calls, CallSongUrls(args.mid, Head(order), cred))
        /\ ret' = NoDict
        /\ login' = IF cred # credential THEN Unasked("qqmusic") ELSE login
        /\ UNCHANGED was_expired

\* Lines 256-266: get_login_status answers from is_valid and was_expired
StatusReturned(valid, cred) ==
    /\ pc' = "done"
    /\ ret' = IF valid
              THEN LET r == [logged_in |-> TRUE, musicid |-> cred.musicid]
                   IN  IF was_expired = "True" THEN Put(r, "refreshed", TRUE) ELSE r
              ELSE [logged_in |-> FALSE, expired |-> TRUE]
    /\ login' = Reported("qqmusic", valid)
    /\ was_expired' = None
    /\ UNCHANGED <<has_credential, is_valid, file_types, last_error, calls>>

\* _ensure_credential_valid returned `valid` to its caller (lines 254,
\* 469-471)
EnsureReturned(valid, cred) ==
    IF Get(args, "op", None) = "get_login_status"
    THEN StatusReturned(valid, cred)
    ELSE StartRequests(valid, IF valid THEN "True" ELSE "False", cred)

\* _ensure_credential_valid goes on to its next await
EnsureAwaits(next_pc, op) ==
    /\ pc' = next_pc
    /\ calls' = Append(calls, CallBackend(op))
    /\ UNCHANGED <<locals, ret, login>>

\* get_login_status up to its first await: load the stored credential when
\* none is held (lines 249-253, 268)
GetLoginStatus ==
    /\ pc = "idle"
    /\ args' = Op("qqmusic", "get_login_status")
    /\ \E c \in (IF credential = NoDict /\ stored_credential # NoDict
                 THEN LoadedCredentials(stored_credential)
                 ELSE {credential}) :
         /\ credential' = c
         /\ IF c # NoDict /\ HasMusicId(c)
            THEN /\ pc' = "qq_was_expired"
                 /\ calls' = <<CallBackend("is_expired")>>
                 /\ UNCHANGED <<ret, login>>
            ELSE /\ pc' = "done"
                 /\ ret' = [logged_in |-> FALSE]
                 /\ login' = Reported("qqmusic", FALSE)
                 /\ UNCHANGED calls
    /\ UNCHANGED <<has_credential, is_valid, file_types, last_error, was_expired>>
    /\ UNCHANGED <<frame, response, prov>>
    /\ UNCHANGED <<mgr, raised, config>>

\* credential.is_expired() of line 253 returned or raised (lines 253-254,
\* 270-272)
WasExpiredReturn(outcome) ==
    /\ pc = "qq_was_expired"
    /\ response' = [outcome |-> outcome]
    /\ IF outcome = "raises"
       THEN /\ pc' = "done"
            /\ ret' = [logged_in |-> FALSE, error |-> "is_expired failed"]
            /\ login' = Reported("qqmusic", FALSE)
            /\ UNCHANGED <<was_expired, calls>>
       ELSE /\ pc' = "qq_is_expired"
            /\ was_expired' = IF credential.expired THEN "True" ELSE "False"
            /\ calls' = Append(calls, CallBackend("is_expired"))
            /\ UNCHANGED <<ret, login>>
    /\ UNCHANGED <<credential, has_credential, is_valid, file_types, last_error>>
    /\ UNCHANGED <<args, frame, prov>>
    /\ UNCHANGED <<mgr, raised, config>>

\* get_song_url up to its first await
GetSongUrl(mid, preferred_quality) ==
    /\ pc = "idle"
    /\ args' = [mid |-> mid, preferred_quality |-> preferred_quality]
    /\ IF credential # NoDict /\ HasMusicId(credential)
       THEN /\ pc' = "qq_is_expired"
            /\ has_credential' = TRUE
            /\ calls' = <<CallBackend("is_expired")>>
            /\ UNCHANGED <<is_valid, file_types, last_error, ret>>
       ELSE LET order == pick_order(preferred_quality, FALSE)
            IN  /\ has_credential' = FALSE
                /\ file_types' = Tail(order)
                /\ pc' = "qq_get_song_urls"
                /\ calls' = <<CallSongUrls(mid, Head(order), credential)>>
                /\ UNCHANGED <<is_valid, last_error, ret>>
    /\ UNCHANGED <<credential, was_expired>>
    /\ UNCHANGED <<frame, response, prov>>
    /\ UNCHANGED <<mgr, raised, config, login>>

\* credential.is_expired() returned or raised (lines 175-176, 191-193)
IsExpiredReturn(outcome) ==
    /\ pc = "qq_is_expired"
    /\ response' = [outcome |-> outcome]
    /\ IF outcome = "raises" THEN EnsureReturned(FALSE, credential)
       ELSE IF ~credential.expired THEN EnsureReturned(TRUE, credential)
       ELSE EnsureAwaits("qq_can_refresh", "can_refresh")
    /\ UNCHANGED credential
    /\ UNCHANGED <<args, frame, prov>>
    /\ UNCHANGED <<mgr, raised, config>>

\* credential.can_refresh() returned or raised (lines 178, 189)
CanRefreshReturn(outcome) ==
    /\ pc = "qq_can_refresh"
    /\ response' = [outcome |-> outcome]
    /\ IF outcome = "raises" \/ ~credential.refreshable
       THEN EnsureReturned(FALSE, credential)
       ELSE EnsureAwaits("qq_refresh", "refresh")
    /\ UNCHANGED credential
    /\ UNCHANGED <<args, frame, prov>>
    /\ UNCHANGED <<mgr, raised, config>>

\* credential.refresh() returned true, returned false, or raised
\* (lines 179-188)
RefreshReturn(outcome) ==
    /\ pc = "qq_refresh"
    /\ response' = [outcome |-> outcome]
    /\ IF outcome = "refreshed"
       THEN /\ credential' = [credential EXCEPT !.expired = FALSE]
            /\ stored_credential' = StoredAs(credential')
            /\ EnsureReturned(TRUE, credential')
       ELSE /\ UNCHANGED <<credential, stored_credential>>
            /\ EnsureReturned(FALSE, credential)
    /\ UNCHANGED <<current_qr, netease>>
    /\ UNCHANGED <<args, frame>>
    /\ UNCHANGED <<mgr, raised, config>>

\* Lines 532-537: the message of the failure
UrlErrorMessage(logged_in, error) ==
    IF ~logged_in THEN "login state abnormal, log in again and retry"
    ELSE IF IsVipError(error) THEN "the song must be bought or needs a membership"
    ELSE "the song is unavailable, possibly for copyright or membership limits"

\* song.get_song_urls returned or raised (lines 513-540); the frame's locals
\* go when the call returns
GetSongUrlsReturn(outcome) ==
    LET error == IF "raises" \in DOMAIN outcome THEN outcome.raises ELSE last_error
        served == "url" \in DOMAIN outcome /\ outcome.url # ""
        finished == served \/ file_types = <<>>
    IN  /\ pc = "qq_get_song_urls"
        /\ response' = outcome
        /\ IF finished
           THEN /\ pc' = "done"
                /\ ret' = IF served
                          THEN [success |-> TRUE, url |-> outcome.url, mid |-> args.mid,
                                quality |-> calls[Len(calls)].file_type]
                          ELSE [success |-> FALSE, url |-> "", mid |-> args.mid,
                                error |-> UrlErrorMessage(has_credential, error)]
                /\ has_credential' = FALSE
                /\ is_valid' = None
                /\ file_types' = <<>>
                /\ last_error' = ""
                /\ UNCHANGED calls
           ELSE /\ pc' = "qq_get_song_urls"
                /\ last_error' = error
                /\ file_types' = Tail(file_types)
                /\ calls' = Append(calls, CallSongUrls(args.mid, Head(file_types), credential))
                /\ UNCHANGED <<has_credential, is_valid, ret>>
        /\ UNCHANGED <<credential, was_expired>>
        /\ UNCHANGED <<args, frame, prov>>
        /\ UNCHANGED <<mgr, raised, config, login>>

----------------------------------------------------------------------------
(* NeteaseProvider (src/backend/providers/netease.py): QR login, logout and  *)
(* get_login_status.  None of them awaits, each runs to completion.         *)
(* `netease` holds whether the pyncm session is logged in, whether          *)
(* ConfigManager holds a "netease_session", and _qr_unikey.                 *)

\* What login.LoginQrcodeUnikey can answer
UnikeyOutcomes ==
    {[code |-> 200, unikey |-> "u1"], [code |-> 200, unikey |-> ""],
     [code |-> 500, unikey |-> ""], [raises |-> "timeout"]}

\* What login.LoginQrcodeCheck can answer, and for code 803 whether
\* GetCurrentLoginStatus / WriteLoginInfo go through
QrcodeCheckOutcomes ==
    {[code |-> c, login_info |-> TRUE] : c \in {800, 801, 802, 803, 0}}
    \cup {[code |-> 803, login_info |-> FALSE], [raises |-> "timeout"]}

netease_status_map(code) ==
    CASE code = 801 -> "waiting"
      [] code = 802 -> "scanned"
      [] code = 803 -> "success"
      [] code = 800 -> "timeout"
      [] OTHER -> "unknown"

\* `not self._qr_unikey`
NoUnikey == netease.qr_unikey \in {None, ""}

NeteaseGetQrCode(outcome) ==
    /\ pc = "idle"
    /\ pc' = "done"
    /\ args' = Op("netease", "get_qr_code")
    /\ response' = outcome
    /\ calls' = <<CallBackend("LoginQrcodeUnikey")>>
    /\ IF "raises" \in DOMAIN outcome
       THEN /\ ret' = [success |-> FALSE, error |-> outcome.raises]
            /\ UNCHANGED netease
       ELSE IF outcome.code # 200
       THEN /\ ret' = [success |-> FALSE, error |-> "no QR code"]
            /\ UNCHANGED netease
       ELSE /\ netease' = [netease EXCEPT !.qr_unikey = outcome.unikey]
            /\ ret' = [success |-> TRUE, qr_data |-> outcome.unikey, login_type |-> "netease"]
    /\ UNCHANGED <<stored_credential, current_qr>>
    /\ UNCHANGED frame
    /\ UNCHANGED <<mgr, raised, config, login, qq>>

NeteaseCheckQrStatus(outcome) ==
    /\ pc = "idle"
    /\ pc' = "done"
    /\ args' = Op("netease", "check_qr_status")
    /\ IF NoUnikey
       THEN /\ ret' = [success |-> FALSE, error |-> "no QR code available"]
            /\ UNCHANGED <<netease, login, response, calls>>
       ELSE /\ response' = outcome
            /\ calls' = <<Put(CallBackend("LoginQrcodeCheck"), "qr", netease.qr_unikey)>>
            /\ IF "raises" \in DOMAIN outcome
               THEN /\ ret' = [success |-> FALSE, error |-> outcome.raises]
                    /\ UNCHANGED <<netease, login>>
               ELSE IF outcome.code = 803 /\ ~outcome.login_info
               THEN /\ ret' = [success |-> FALSE, error |-> "login status failed"]
                    /\ UNCHANGED <<netease, login>>
               ELSE IF outcome.code = 803
               THEN /\ netease' = [logged_in |-> TRUE, stored |-> TRUE, qr_unikey |-> None]
                    /\ login' = Unasked("netease")
                    /\ ret' = [success |-> TRUE, status |-> "success",
                               logged_in |-> TRUE, musicid |-> "n1"]
               ELSE /\ ret' = [success |-> TRUE, status |-> netease_status_map(outcome.code)]
                    /\ UNCHANGED <<netease, login>>
    /\ UNCHANGED <<stored_credential, current_qr>>
    /\ UNCHANGED frame
    /\ UNCHANGED <<mgr, raised, config, qq>>

\* get_login_status: load the stored session, when there is one and it
\* parses, then report the session's logged_in (lines 280-294)
NeteaseGetLoginStatus(loads) ==
    LET logged_in == netease.logged_in \/ (netease.stored /\ loads)
    IN  /\ pc = "idle"
        /\ pc' = "done"
        /\ args' = Op("netease", "get_login_status")
        /\ netease' = [netease EXCEPT !.logged_in = logged_in]
        /\ ret' = IF logged_in THEN [logged_in |-> TRUE, musicid |-> "n1"]
                  ELSE [logged_in |-> FALSE]
        /\ login' = Reported("netease", logged_in)
        /\ UNCHANGED <<stored_credential, current_qr>>
        /\ UNCHANGED <<frame, response, calls>>
        /\ UNCHANGED <<mgr, raised, config, qq>>

NeteaseLogout ==
    /\ pc = "idle"
    /\ pc' = "done"
    /\ args' = Op("netease", "logout")
    /\ netease' = [logged_in |-> FALSE, stored |-> FALSE, qr_unikey |-> None]
    /\ login' = Unasked("netease")
    /\ ret' = [success |-> TRUE]
    /\ UNCHANGED <<stored_credential, current_qr>>
    /\ UNCHANGED <<frame, response, calls>>
    /\ UNCHANGED <<mgr, raised, config, qq>>

----------------------------------------------------------------------------
(* Specifications.  The registry/selection operations run between        *)
(* requests.  Spec has register, switch, set_fallback_order, the two        *)
(* routing requests and get_capabilities.  SpecConfig has register, the     *)
(* stored configuration, the providers' login state, apply_provider_config  *)
(* and get_provider_selection: the manager state is what the configuration  *)
(* produces.  SpecQQMusic has the QQ Music provider alone: QR login,        *)
(* logout, get_login_status and get_song_url.  SpecStore, SpecRace,         *)
(* SpecApply and SpecLogin are described where they are defined.            *)

Registration == pc = "idle" /\ \E p \in ProviderObjects : Register(p)

Selection ==
    \/ Registration
    \/ pc = "idle" /\ \E id \in ProviderIds : Switch(id)
    \/ pc = "idle" /\ \E ids \in IdLists : SetFallbackOrder(ids)

ConfigStore ==
    \/ pc = "idle" /\ \E id \in ProviderIds : SetMainProviderId(id)
    \/ pc = "idle" /\ DeleteMainProviderId
    \/ pc = "idle" /\ \E ids \in IdLists : SetFallbackProviderIds(ids)
    \/ pc = "idle" /\ \E id \in ProviderIds, status \in LoginStatuses :
                         LoginStatusChanges(id, status)

Configuration ==
    \/ ApplyProviderConfig
    \/ GetProviderSelection

UrlRouting ==
    \/ \E a \in Requests : GetSongUrlWithFallback(a)
    \/ pc = "url_primary" /\ \E resp \in UrlResponses(calls[1].provider, args.mid) :
                                UrlPrimaryReturn(resp)
    \/ pc = "url_search" /\ \E resp \in SearchResponses(fb_id) : UrlSearchReturn(resp)
    \/ pc = "url_fetch" /\ \E resp \in UrlResponses(fb_id, Get(matched, "mid", "")) :
                              UrlFetchReturn(resp)

LyricRouting ==
    \/ \E a \in Requests : GetSongLyricWithFallback(a)
    \/ pc = "lyric_primary" /\ \E resp \in LyricResponses(calls[1].provider, args.mid) :
                                  LyricPrimaryReturn(resp)
    \/ pc = "lyric_search" /\ \E resp \in SearchResponses(fb_id) : LyricSearchReturn(resp)
    \/ pc = "lyric_fetch" /\ \E resp \in LyricResponses(fb_id, Get(matched, "mid", "")) :
                                LyricFetchReturn(resp)

Routing == UrlRouting \/ LyricRouting \/ Return

Queries ==
    \/ GetCapabilities
    \/ ListProvidersInfo

Next == Selection \/ Queries \/ Routing

Spec == Init /\ [][Next]_vars

\* SpecStore: the ConfigManager alone, its provider settings written and read
\* back
NextStore ==
    \/ pc = "idle" /\ \E id \in ProviderIds : SetMainProviderId(id)
    \/ pc = "idle" /\ DeleteMainProviderId
    \/ \E values \in ValueLists : SetFallbackProviderIdsCall(values)
    \/ GetFallbackProviderIds
    \/ pc = "idle" /\ DeleteFallbackProviderIds
    \/ Return

SpecStore == Init /\ [][NextStore]_vars

\* SpecRace: as Spec for the URL request, and switch may also run while the
\* request is suspended at an awaited provider call (the event loop runs
\* another handler during the await)
SwitchWhileSuspended ==
    pc \in {"url_primary", "url_search", "url_fetch"} /\ \E id \in ProviderIds : Switch(id)

NextRace == Selection \/ UrlRouting \/ Return \/ SwitchWhileSuspended

SpecRace == Init /\ [][NextRace]_vars

NextConfig == Registration \/ ConfigStore \/ Configuration \/ Return

SpecConfig == Init /\ [][NextConfig]_vars

\* SpecApply: apply_provider_config and get_provider_selection over every
\* settings file, with two of the providers registered and a status check
\* that may raise
NextApply ==
    \/ pc = "idle" /\ \E p \in {QQMusicProvider, NeteaseProvider} : Register(p)
    \/ pc = "idle" /\ \E id \in ProviderIds, status \in LoginOutcomes :
                         LoginStatusChanges(id, status)
    \/ Configuration
    \/ Return

InitLoaded == \E settings \in SettingsFiles : InitWith(settings, NoDict)

SpecApply == InitLoaded /\ [][NextApply]_vars

\* SpecLogin: the two providers with a login, their QR login, logout and
\* get_login_status, the stored provider settings, and apply_provider_config.
\* apply_provider_config awaits get_login_status of the providers it asks;
\* here those calls are the get_login_status steps that ran before it, and
\* `login` holds what they returned, so it runs when every registered
\* provider has answered since its credential state last changed.
LoginProviders == {QQMusicProvider, NeteaseProvider}
LoginIds == {p.id : p \in LoginProviders}

StatusesRead == \A id \in RegisteredIds : login[id] \in LoginStatuses

\* The backend answers SpecLogin draws from: a QR login that is still waiting,
\* one that completes, and a failing call
LoginQrOutcomes ==
    {o \in CheckQrcodeOutcomes :
        \/ "raises" \in DOMAIN o
        \/ o.event = "SCAN" /\ o.credential = NoDict
        \/ /\ o.event = "DONE"
           /\ o.credential # NoDict
           /\ HasMusicId(o.credential)
           /\ o.credential.refreshable}
LoginUnikeyOutcomes == {o \in UnikeyOutcomes : "raises" \in DOMAIN o \/ o.unikey # ""}
LoginQrcodeCheckOutcomes ==
    {o \in QrcodeCheckOutcomes : "raises" \in DOMAIN o \/ (o.code \in {801, 803} /\ o.login_info)}

QQLogin ==
    \/ GetQrCode
    \/ GetQrcodeReturn("returns")
    \/ CheckQrStatus
    \/ pc = "qq_check_qrcode" /\ \E outcome \in LoginQrOutcomes : CheckQrcodeReturn(outcome)
    \/ Logout
    \/ \E refreshable \in BOOLEAN : CredentialAges(refreshable)
    \/ GetLoginStatus
    \/ \E outcome \in {"returns", "raises"} : WasExpiredReturn(outcome)
    \/ \E outcome \in {"returns", "raises"} : IsExpiredReturn(outcome)
    \/ \E outcome \in {"returns", "raises"} : CanRefreshReturn(outcome)
    \/ \E outcome \in {"refreshed", "failed", "raises"} : RefreshReturn(outcome)

NeteaseLogin ==
    \/ \E outcome \in LoginUnikeyOutcomes : NeteaseGetQrCode(outcome)
    \/ \E outcome \in LoginQrcodeCheckOutcomes : NeteaseCheckQrStatus(outcome)
    \/ NeteaseGetLoginStatus(TRUE)
    \/ NeteaseLogout

NextLogin ==
    \/ pc = "idle" /\ \E p \in LoginProviders : Register(p)
    \/ pc = "idle" /\ \E id \in LoginIds : SetMainProviderId(id)
    \/ pc = "idle" /\ \E id \in LoginIds : SetFallbackProviderIds(<<id>>)
    \/ QQLogin
    \/ NeteaseLogin
    \/ StatusesRead /\ ApplyProviderConfig
    \/ Return

SpecLogin == Init /\ [][NextLogin]_vars

\* SpecQQMusic: the QQ Music provider alone, its login, credential and get_song_url
NextQQMusic ==
    \/ \E refreshable \in BOOLEAN : CredentialAges(refreshable)
    \/ GetQrCode
    \/ \E outcome \in {"returns", "raises"} : GetQrcodeReturn(outcome)
    \/ CheckQrStatus
    \/ pc = "qq_check_qrcode" /\ \E outcome \in CheckQrcodeOutcomes : CheckQrcodeReturn(outcome)
    \/ Logout
    \/ GetLoginStatus
    \/ \E outcome \in {"returns", "raises"} : WasExpiredReturn(outcome)
    \/ \E pref \in QualityPreferences : GetSongUrl("a1", pref)
    \/ \E outcome \in {"returns", "raises"} : IsExpiredReturn(outcome)
    \/ \E outcome \in {"returns", "raises"} : CanRefreshReturn(outcome)
    \/ \E outcome \in {"refreshed", "failed", "raises"} : RefreshReturn(outcome)
    \/ \E outcome \in SongUrlsOutcomes : GetSongUrlsReturn(outcome)
    \/ Return

\* The plugin starts with or without a credential stored by an earlier run
InitRestored ==
    \E data \in {NoDict, [musicid |-> "10001"]} : InitWith(EmptySettings, data)

SpecQQMusic == InitRestored /\ [][NextQQMusic]_vars

----------------
(* Registry and selection: C1 - C3 *)

NoDuplicates(seq) == \A i, j \in 1..Len(seq) : seq[i] = seq[j] => i = j

\* C1: for every provider id that is not in the registry, switch(id) raises
\* the unknown-provider error and leaves active_id, fallback_ids and the
\* registry exactly as they were.
C1_SwitchUnknownFails ==
    [][\A id \in ProviderIds :
         (id \notin RegisteredIds /\ Switch(id))
         => /\ raised' = "ValueError: Unknown provider"
            /\ providers' = providers
            /\ active_id' = active_id
            /\ fallback_ids' = fallback_ids]_vars

\* C1 witness: a switch to an unknown id has failed while a provider was
\* active and a fallback chain was set.
C1_Witness ==
    /\ raised = "ValueError: Unknown provider"
    /\ active_id # None
    /\ fallback_ids # <<>>

\* C2: in every reachable state every id in fallback_ids is registered,
\* differs from active_id, and occurs at most once in fallback_ids.
C2_FallbackInvariant ==
    /\ \A i \in 1..Len(fallback_ids) :
         fallback_ids[i] \in RegisteredIds /\ fallback_ids[i] # active_id
    /\ NoDuplicates(fallback_ids)

\* C3: set_fallback_order(ids) leaves fallback_ids equal to ids filtered to
\* registered ids, in input order, with active_id excluded; the previous
\* list is replaced, not merged.
C3_SetFallbackOrderFilters ==
    [][\A ids \in IdLists :
         SetFallbackOrder(ids)
         => fallback_ids' = SelectSeq(ids, LAMBDA pid : pid \in RegisteredIds
                                                       /\ pid # active_id)]_vars

----------------------------------------------------------------------------
(* Fallback routing: C4 - C10 *)

UrlOk(resp) == IsTrue(resp, "success") /\ NonEmpty(resp, "url")
LyricOk(resp) == IsTrue(resp, "success") /\ NonEmpty(resp, "lyric")

\* A fallback candidate both walks would search
FullProvider(id) ==
    /\ id # active_id
    /\ id \in RegisteredIds
    /\ GetProvider(id).capabilities = {SEARCH_SONG, LYRIC_BASIC}

\* C4 (as claimed): for both requests, when the active provider answers
\* success with a non-empty payload, that answer is returned at once tagged
\* with provider = active_id, and no fallback provider is called.
C4_PrimarySuccessTagged ==
    [][/\ (pc = "url_primary" /\ UrlPrimaryReturn(response') /\ UrlOk(response'))
            => /\ pc' = "done"
               /\ ret' = Put(response', "provider", active_id)
               /\ calls' = <<CallUrl(active_id, args.mid)>>
       /\ (pc = "lyric_primary" /\ LyricPrimaryReturn(response') /\ LyricOk(response'))
            => /\ pc' = "done"
               /\ ret' = Put(response', "provider", active_id)
               /\ calls' = <<CallLyric(active_id, args.mid)>>]_vars

\* C4 (amended): when the active provider answers success with a non-empty
\* payload, that answer is returned at once and no fallback provider is
\* called; the URL answer is tagged with provider = active_id, the lyric
\* answer is returned as the provider gave it, with no provider tag.
C4_PrimarySuccessReturned ==
    [][/\ (pc = "url_primary" /\ UrlPrimaryReturn(response') /\ UrlOk(response'))
            => /\ pc' = "done"
               /\ ret' = Put(response', "provider", active_id)
               /\ calls' = <<CallUrl(active_id, args.mid)>>
       /\ (pc = "lyric_primary" /\ LyricPrimaryReturn(response') /\ LyricOk(response'))
            => /\ pc' = "done"
               /\ ret' = response'
               /\ "provider" \notin DOMAIN ret'
               /\ calls' = <<CallLyric(active_id, args.mid)>>]_vars

\* C4 witness: a lyric request answered by the active provider while a
\* fallback provider that could have been searched is configured.
C4_Witness ==
    /\ pc = "done"
    /\ Len(calls) = 1
    /\ calls[1].op = "get_song_lyric"
    /\ LyricOk(ret)
    /\ \E i \in 1..Len(fallback_ids) : FullProvider(fallback_ids[i])

\* C5: when the active provider A fails get_song_url and fallback B's search
\* yields a match whose get_song_url on B succeeds with a non-empty url, the
\* request returns success with fallback_provider = B, original_provider = A
\* and matched_song = B's matched record; B's get_song_url is called with
\* the matched song's own mid.
C5_FallbackUrlSuccess ==
    [][/\ (pc = "url_search" /\ UrlSearchReturn(response') /\ pc' = "url_fetch")
            => /\ \E i \in 1..Len(response'.songs) : matched' = response'.songs[i]
               /\ calls' = Append(calls, CallUrl(fb_id, matched'.mid))
               /\ fb_id' = fb_id
       /\ (pc = "url_fetch" /\ UrlFetchReturn(response') /\ UrlOk(response'))
            => /\ pc' = "done"
               /\ ret'.success
               /\ ret'.url = response'.url
               /\ ret'.fallback_provider = fb_id
               /\ ret'.original_provider = calls[1].provider
               /\ ret'.original_provider # fb_id
               /\ ret'.matched_song = matched
               /\ calls[Len(calls)] = CallUrl(fb_id, matched.mid)]_vars

\* C5 witness: a URL request served by a fallback provider's matched song.
C5_Witness ==
    /\ pc = "done"
    /\ "fallback_provider" \in DOMAIN ret
    /\ "matched_song" \in DOMAIN ret
    /\ ret.matched_song.mid = "b42"
    /\ calls[Len(calls)].mid = "b42"

\* The active provider's error message as line 119 captures it
PrimaryError(resp) == IF "error" \in DOMAIN resp THEN resp.error ELSE "Unknown error"

ExhaustedUrl(error) ==
    [success |-> FALSE, url |-> "", mid |-> args.mid,
     provider |-> calls[1].provider, error |-> error]

\* C6: when the active provider fails get_song_url (success=false or empty
\* url) and no fallback provider yields a usable url, the request returns
\* success=false, url "", the caller's mid, provider = the active id and
\* the active provider's own error message ("Unknown error" when its answer
\* carried none), never an error of a fallback provider.
C6_UrlExhaustionOriginalError ==
    [][/\ (pc = "url_primary" /\ UrlPrimaryReturn(response') /\ ~UrlOk(response'))
            => /\ calls[1].provider = active_id
               /\ IF pc' = "done"
                  THEN ret' = ExhaustedUrl(PrimaryError(response'))
                  ELSE original_error' = PrimaryError(response')
       /\ (pc \in {"url_search", "url_fetch"} /\ pc' \in {"url_search", "url_fetch"})
            => original_error' = original_error
       /\ (pc \in {"url_search", "url_fetch"} /\ pc' = "done"
             /\ "fallback_provider" \notin DOMAIN ret')
            => ret' = ExhaustedUrl(original_error)]_vars

\* C6 witness: every fallback was tried and failed, and the failure carries
\* the active provider's error.
C6_Witness ==
    /\ pc = "done"
    /\ Len(calls) >= 3
    /\ calls[Len(calls)].op = "get_song_url"
    /\ ret = ExhaustedUrl(ErrOf(active_id))

\* C7: when the active provider's get_song_lyric yields no usable lyric and
\* no fallback yields one, the request returns success=false carrying the
\* active provider's error message and the original provider id.
C7_LyricExhaustionFailure ==
    (pc = "done" /\ calls # <<>> /\ calls[1].op = "get_song_lyric" /\ ~LyricOk(ret))
    => /\ ~IsTrue(ret, "success")
       /\ "error" \in DOMAIN ret
       /\ calls[1].provider \in {Get(ret, "provider", None),
                                 Get(ret, "original_provider", None)}

\* The tie-break policy of the spec: first result matching name and singer,
\* else first result matching name, else none
FirstWhere(songs, P(_)) ==
    songs[CHOOSE i \in 1..Len(songs) : P(songs[i]) /\ \A j \in 1..(i - 1) : ~P(songs[j])]

ExpectedMatch(songs, song_name, singer) ==
    LET NameAndSinger(s) == s.name = song_name /\ StrIn(singer, s.singer)
        NameOnly(s) == s.name = song_name
    IN  IF \E i \in 1..Len(songs) : NameAndSinger(songs[i])
        THEN FirstWhere(songs, NameAndSinger)
        ELSE IF \E i \in 1..Len(songs) : NameOnly(songs[i])
        THEN FirstWhere(songs, NameOnly)
        ELSE NoDict

SearchOutcome(resp, fetch_pc) ==
    LET m == ExpectedMatch(resp.songs, args.song_name, args.singer)
    IN  /\ matched' = m
        /\ IF m = NoDict
           THEN /\ pc' # fetch_pc
                /\ \/ calls' = calls
                   \/ /\ calls' = Append(calls, calls'[Len(calls')])
                      /\ calls'[Len(calls')].op = "search_songs"
           ELSE /\ pc' = fetch_pc
                /\ calls'[Len(calls')].provider = fb_id
                /\ calls'[Len(calls')].mid = m.mid

\* C8: on a successful, non-empty search result the match is the first
\* result with name = songName whose singer contains the query singer, even
\* when a name-only match stands earlier in the list; otherwise the first
\* result with name = songName; otherwise there is no match and the provider
\* is skipped without any url/lyric call.
C8_TieBreak ==
    [][/\ (pc = "url_search" /\ UrlSearchReturn(response')
              /\ response'.success /\ response'.songs # <<>>)
            => SearchOutcome(response', "url_fetch")
       /\ (pc = "lyric_search" /\ LyricSearchReturn(response')
              /\ response'.success /\ response'.songs # <<>>)
            => SearchOutcome(response', "lyric_fetch")]_vars

\* C8 witness: a fallback search matched the name-and-singer result that
\* stands behind a name-only match.
C8_Witness ==
    /\ pc = "lyric_fetch"
    /\ Len(response.songs) = 2
    /\ response.songs[1].name = "Yesterday"
    /\ response.songs[1].singer = Wings
    /\ matched = response.songs[2]
    /\ matched.name = "Yesterday"
    /\ matched.singer = TheBeatles
    /\ calls[Len(calls)] = CallLyric(fb_id, "b42")

RECURSIVE IsSubsequence(_, _)
IsSubsequence(a, b) ==
    IF a = <<>> THEN TRUE
    ELSE IF b = <<>> THEN FALSE
    ELSE IF Head(a) = Head(b) THEN IsSubsequence(Tail(a), Tail(b))
    ELSE IsSubsequence(a, Tail(b))

\* The fallback providers searched so far, in call order
Consulted ==
    LET searches == SelectSeq(calls, LAMBDA c : c.op = "search_songs")
    IN  [i \in 1..Len(searches) |-> searches[i].provider]

WalkInOrder ==
    calls # <<>> =>
        /\ IsSubsequence(Consulted, fallback_ids)
        /\ \A i \in 2..Len(calls) :
              \/ calls[i].op = "search_songs"
              \/ /\ calls[i - 1].op = "search_songs"
                 /\ calls[i - 1].provider = calls[i].provider
        /\ (pc = "done" /\ "fallback_provider" \in DOMAIN ret)
              => /\ calls[Len(calls)].op # "search_songs"
                 /\ calls[Len(calls)].provider = ret.fallback_provider

\* C9: a fallback walk consults the providers strictly in fallback_ids order
\* and one at a time; the result comes from the first provider in that order
\* whose matched-song operation succeeds with a non-empty payload, and no
\* provider after it is called.
C9_SequentialOrderedWalk ==
    [][/\ WalkInOrder'
       /\ calls' # calls =>
            \/ pc' = "idle"
            \/ pc = "idle" /\ Len(calls') = 1
            \/ pc \notin {"idle", "done"} /\ Len(calls') = Len(calls) + 1
       /\ (pc = "url_fetch" /\ UrlFetchReturn(response') /\ UrlOk(response'))
            => pc' = "done" /\ calls' = calls /\ ret'.fallback_provider = fb_id
       /\ (pc = "lyric_fetch" /\ LyricFetchReturn(response') /\ LyricOk(response'))
            => pc' = "done" /\ calls' = calls /\ ret'.fallback_provider = fb_id]_vars

\* C9 witness: the first of two searchable fallback providers served the
\* request and the second was never called.
C9_Witness ==
    /\ pc = "done"
    /\ "fallback_provider" \in DOMAIN ret
    /\ Len(calls) = 3
    /\ Len(fallback_ids) = 2
    /\ fallback_ids[1] # fallback_ids[2]
    /\ FullProvider(fallback_ids[1])
    /\ FullProvider(fallback_ids[2])
    /\ ret.fallback_provider = fallback_ids[1]

\* C10: during get_song_lyric_with_fallback a fallback provider whose
\* capability set lacks LYRIC_BASIC receives no search_songs call and no
\* get_song_lyric call, whatever its position in fallback_ids.
C10_LyricGate ==
    (calls # <<>> /\ calls[1].op = "get_song_lyric")
    => \A i \in 2..Len(calls) :
          LYRIC_BASIC \in GetProvider(calls[i].provider).capabilities

\* C10 witness: a lyric walk went past a provider that lacks LYRIC_BASIC
\* (and declares SEARCH_SONG) and searched the provider listed after it.
C10_Witness ==
    /\ calls # <<>>
    /\ calls[1].op = "get_song_lyric"
    /\ Len(fallback_ids) = 2
    /\ fallback_ids[1] # active_id
    /\ fallback_ids[1] \in RegisteredIds
    /\ GetProvider(fallback_ids[1]).capabilities = {SEARCH_SONG}
    /\ Len(calls) >= 2
    /\ calls[2].provider = fallback_ids[2]

----------------------------------------------------------------------------
(* Capability gate, missing active provider, get_capabilities: C11 - C13 *)

IsPrefix(a, b) == Len(a) <= Len(b) /\ SubSeq(b, 1, Len(a)) = a

\* The fallback candidates that declare the capabilities in `required`
Candidates(required) ==
    SelectSeq(fallback_ids,
              LAMBDA id : /\ id # active_id
                          /\ id \in RegisteredIds
                          /\ required \subseteq GetProvider(id).capabilities)

\* The providers searched are the leading candidates of `expected`, and all
\* of them once the walk is exhausted
AttemptedExactly(expected, exhausted) ==
    /\ IsPrefix(Consulted, expected)
    /\ exhausted => Consulted = expected

\* C11 (as claimed): a URL fallback candidate is attempted iff it declares
\* SEARCH_SONG and a lyric fallback candidate is attempted iff it declares
\* LYRIC_BASIC: a candidate lacking the capability receives no call, a
\* candidate having it is searched.
C11_GateExactlyOneCapability ==
    /\ (calls # <<>> /\ calls[1].op = "get_song_url")
         => AttemptedExactly(Candidates({SEARCH_SONG}), pc = "done" /\ ~UrlOk(ret))
    /\ (calls # <<>> /\ calls[1].op = "get_song_lyric")
         => AttemptedExactly(Candidates({LYRIC_BASIC}), pc = "done" /\ ~LyricOk(ret))

\* C11 (amended): a URL fallback candidate is attempted iff it declares
\* SEARCH_SONG; a lyric fallback candidate is attempted iff it declares both
\* LYRIC_BASIC and SEARCH_SONG.  A candidate lacking a required capability
\* receives no call; a candidate having them is searched when the walk
\* reaches it.
C11_GateLyricNeedsSearch ==
    /\ (calls # <<>> /\ calls[1].op = "get_song_url")
         => AttemptedExactly(Candidates({SEARCH_SONG}), pc = "done" /\ ~UrlOk(ret))
    /\ (calls # <<>> /\ calls[1].op = "get_song_lyric")
         => AttemptedExactly(Candidates({LYRIC_BASIC, SEARCH_SONG}),
                             pc = "done" /\ ~LyricOk(ret))

\* C11 witness: an exhausted lyric walk passed over a provider that declares
\* LYRIC_BASIC without SEARCH_SONG and searched the provider listed after it.
C11_Witness ==
    /\ pc = "done"
    /\ calls # <<>>
    /\ calls[1].op = "get_song_lyric"
    /\ ~LyricOk(ret)
    /\ Len(fallback_ids) = 2
    /\ fallback_ids[1] # active_id
    /\ fallback_ids[1] \in RegisteredIds
    /\ GetProvider(fallback_ids[1]).capabilities = {LYRIC_BASIC}
    /\ Consulted = <<fallback_ids[2]>>

\* C12: while active_id is unset, both routing requests return success=false
\* with error "No active provider" and empty payload fields, raise nothing
\* and call no provider, whatever fallback_ids holds.
C12_NoActiveProvider ==
    [][(pc = "idle" /\ active_id = None /\ args' \in Requests)
         => /\ GetSongUrlWithFallback(args')
                => /\ pc' = "done"
                   /\ ret' = [success |-> FALSE, error |-> "No active provider",
                              url |-> "", mid |-> args'.mid]
                   /\ calls' = <<>>
                   /\ raised' = raised
            /\ GetSongLyricWithFallback(args')
                => /\ pc' = "done"
                   /\ ret' = [success |-> FALSE, error |-> "No active provider",
                              lyric |-> "", trans |-> ""]
                   /\ calls' = <<>>
                   /\ raised' = raised]_vars

\* C12 witness: a lyric request was refused for want of an active provider
\* while a registered provider stood in fallback_ids.
C12_Witness ==
    /\ pc = "done"
    /\ active_id = None
    /\ args \in Requests
    /\ "lyric" \in DOMAIN ret
    /\ Get(ret, "error", "") = "No active provider"
    /\ calls = <<>>
    /\ fallback_ids # <<>>

\* C13: get_capabilities returns in every reachable manager state: with no
\* active provider {provider: null, capabilities: []}, with an active
\* provider that provider's id, name and exactly its declared capabilities.
C13_GetCapabilities ==
    (pc = "done" /\ "capabilities" \in DOMAIN ret)
    => IF active_id = None
       THEN ret = NoProviderPayload
       ELSE \E i \in 1..Len(providers) :
              /\ providers[i].id = active_id
              /\ ret.provider = [id |-> active_id, name |-> providers[i].name]
              /\ ret.capabilities = providers[i].capabilities

\* C13 witness: get_capabilities answered for an active provider that was
\* registered after another one and re-registered with a smaller capability
\* set.
C13_Witness ==
    /\ pc = "done"
    /\ "capabilities" \in DOMAIN ret
    /\ active_id = "netease"
    /\ ret.capabilities = {SEARCH_SONG}
    /\ Len(providers) >= 2
    /\ providers[1].id # active_id

----------------------------------------------------------------------------
(* apply_provider_config: C14 - C17 *)

LoggedIn(id) == login[id] = "logged_in"

\* The configured main provider is registered and reports logged_in = true
MainEligible ==
    /\ config.main_provider_id # None
    /\ config.main_provider_id \in RegisteredIds
    /\ LoggedIn(config.main_provider_id)

\* Positions in the registry of the providers that report logged_in = true
LoggedInPositions == {i \in 1..Len(providers) : LoggedIn(providers[i].id)}

\* A step in which apply_provider_config ran: it is the one operation of
\* SpecConfig that returns None
ApplyReturned == pc = "idle" /\ pc' = "done" /\ ret' = NoDict

\* C14: when apply_provider_config runs with a configured main-provider id
\* that is registered and reports logged_in = true, active_id equals that id
\* afterwards, whatever was active before and whoever else is logged in.
C14_ConfiguredMainActivated ==
    [][(ApplyReturned /\ MainEligible)
         => active_id' = config.main_provider_id]_vars

\* C14 witness: apply_provider_config activated the configured main provider
\* although a provider registered before it is logged in too.
C14_Witness ==
    /\ pc = "done"
    /\ ret = NoDict
    /\ calls # <<>>
    /\ MainEligible
    /\ calls[1] = CallStatus(config.main_provider_id)
    /\ active_id = config.main_provider_id
    /\ providers[1].id # active_id
    /\ LoggedIn(providers[1].id)

\* C15: when apply_provider_config runs and the configured main provider is
\* not made active (none configured, unregistered, or not logged in), the
\* first registered provider, in registration order, that reports
\* logged_in = true becomes active.
C15_ScanWhenMainNotActivated ==
    [][(ApplyReturned /\ ~MainEligible /\ LoggedInPositions # {})
         => active_id' = providers[MinOf(LoggedInPositions)].id]_vars

\* C16: after apply_provider_config completes while no registered provider
\* reports logged_in = true, active_id is unset and fallback_ids is empty,
\* from any prior manager state.
C16_NobodyLoggedIn ==
    [][(ApplyReturned /\ LoggedInPositions = {})
         => active_id' = None /\ fallback_ids' = <<>>]_vars

\* C17: after apply_provider_config, fallback_ids is the configured
\* fallback-id list filtered, in configuration order, to the ids that are
\* registered, differ from the resulting active id and reported
\* logged_in = true; with three registered providers of which only "netease"
\* is logged in and no main provider configured, active_id = "netease" and
\* fallback_ids is empty.
C17_FallbackListFromConfig ==
    [][ApplyReturned
         => LET now_active == active_id'
            IN  /\ fallback_ids' =
                     SelectSeq(config.fallback_provider_ids,
                               LAMBDA fb : /\ fb \in RegisteredIds
                                           /\ fb # now_active
                                           /\ LoggedIn(fb))
                /\ (/\ Len(providers) = 3
                    /\ config.main_provider_id = None
                    /\ \A id \in ProviderIds : LoggedIn(id) <=> id = "netease")
                      => active_id' = "netease" /\ fallback_ids' = <<>>]_vars

\* C17 witness: three providers are registered, "netease" is not the first
\* of them and is the only one logged in, no main provider is configured,
\* the configuration lists the two logged-out ids, and apply_provider_config
\* has left active_id = "netease" with an empty fallback list.
C17_Witness ==
    /\ pc = "done"
    /\ ret = NoDict
    /\ Len(providers) = 3
    /\ providers[1].id # "netease"
    /\ \A id \in ProviderIds : LoggedIn(id) <=> id = "netease"
    /\ config.main_provider_id = None
    /\ Len(config.fallback_provider_ids) = 2
    /\ \A i \in 1..2 : config.fallback_provider_ids[i] # "netease"
    /\ active_id = "netease"
    /\ fallback_ids = <<>>
    /\ Len(calls) >= 2

----------------------------------------------------------------------------
(* get_provider_selection: C18 - C19 *)

\* The request that has returned is get_provider_selection
SelectionReturned == pc = "done" /\ "fallbackProviders" \in DOMAIN ret

\* C18: in every reachable state, every id get_provider_selection lists in
\* fallbackProviders is one the routing walk would consult (it is in
\* fallback_ids and is not the active id), and mainProvider, when not null,
\* is the active id.
C18_SelectionMatchesRouting ==
    SelectionReturned
    => /\ \A i \in 1..Len(ret.fallbackProviders) :
             /\ \E j \in 1..Len(fallback_ids) : fallback_ids[j] = ret.fallbackProviders[i]
             /\ ret.fallbackProviders[i] # active_id
       /\ ret.mainProvider # None => ret.mainProvider = active_id

\* C19: get_provider_selection leaves active_id, fallback_ids and the
\* registry as they were, for every stored configuration and every
\* combination of provider login outcomes.
C19_SelectionReadOnly ==
    [][(pc = "idle" /\ pc' = "done" /\ "fallbackProviders" \in DOMAIN ret')
         => /\ providers' = providers
            /\ active_id' = active_id
            /\ fallback_ids' = fallback_ids
            /\ config' = config
            /\ raised' = raised]_vars

\* C19 witness: get_provider_selection reported a fallback list that differs
\* from the manager's fallback_ids, having asked a provider that is not
\* logged in, and the manager still holds its own list.
C19_Witness ==
    /\ SelectionReturned
    /\ active_id # None
    /\ ret.mainProvider = active_id
    /\ ret.fallbackProviders # <<>>
    /\ fallback_ids # <<>>
    /\ ret.fallbackProviders # fallback_ids
    /\ \E i \in 1..Len(calls) : ~LoggedIn(calls[i].provider)

----------------------------------------------------------------------------
(* Credential use: C20 *)

\* C20: once _ensure_credential_valid has returned false for an expired
\* credential (it cannot be refreshed, or the refresh failed) in a call of
\* QQMusicProvider.get_song_url, no URL request of that call carries the
\* credential.
C20_InvalidCredentialNotSent ==
    (is_valid = "False" /\ credential # NoDict /\ credential.expired)
    => \A i \in 1..Len(calls) :
          calls[i].op = "get_song_urls" => calls[i].credential = NoDict

----------------------------------------------------------------------------
(* Registration and list_providers_info: C22 *)

\* A step in which list_providers_info ran
ListingReturned == pc = "idle" /\ pc' = "done" /\ "providers_info" \in DOMAIN ret'

\* C22: register is idempotent by id with the last registration winning:
\* after any sequence of register calls the registry holds exactly one
\* provider per distinct id, namely the last instance registered under it;
\* list_providers_info returns one entry per registered id in registration
\* order; the registry never shrinks.
C22_RegisterLastWins ==
    [][/\ Len(providers') >= Len(providers)
       /\ \A i \in 1..Len(providers) : providers'[i].id = providers[i].id
       /\ \A i, j \in 1..Len(providers') : providers'[i].id = providers'[j].id => i = j
       /\ \A p \in ProviderObjects :
            Register(p)
            => /\ \E i \in 1..Len(providers') : providers'[i] = p
               /\ \A i \in 1..Len(providers) :
                    providers'[i] = IF providers[i].id = p.id THEN p ELSE providers[i]
               /\ Len(providers') =
                    Len(providers) + (IF \E i \in 1..Len(providers) : providers[i].id = p.id
                                      THEN 0 ELSE 1)
       /\ ListingReturned
            => /\ Len(ret'.providers_info) = Len(providers)
               /\ \A i \in 1..Len(providers) :
                    /\ ret'.providers_info[i].id = providers[i].id
                    /\ ret'.providers_info[i].name = providers[i].name
                    /\ ret'.providers_info[i].capabilities = providers[i].capabilities]_vars

\* C22 witness: list_providers_info has listed three providers; the entry of
\* id "netease", registered first, shows the instance without LYRIC_BASIC
\* and stands before the two ids registered after it.
C22_Witness ==
    /\ pc = "done"
    /\ "providers_info" \in DOMAIN ret
    /\ Len(ret.providers_info) = 3
    /\ ret.providers_info[1].id = "netease"
    /\ ret.providers_info[1].capabilities = {SEARCH_SONG}
    /\ ret.providers_info[2].id = "local"
    /\ ret.providers_info[3].id = "qqmusic"

----------------------------------------------------------------------------
(* Fallback walk and manager state: C24, C27, C28 *)

\* The request in flight is a routing request that called a provider
RoutingCalls == calls # <<>> /\ calls[1].op \in {"get_song_url", "get_song_lyric"}

\* C24: during any fallback walk (URL or lyric) the currently active
\* provider receives no search_songs call and no second url/lyric call, even
\* when fallback_ids contains the active id.
C24_ActiveNeverSearched ==
    RoutingCalls
    => /\ calls[1].provider = active_id
       /\ \A i \in 2..Len(calls) : calls[i].provider # active_id

\* C24 witness: fallback_ids starts with the active id (switch was called to
\* an id in the list) and the walk has gone past it to the provider listed
\* after it.
C24_Witness ==
    /\ RoutingCalls
    /\ Len(fallback_ids) = 2
    /\ fallback_ids[1] = active_id
    /\ HasCapability(active_id, SEARCH_SONG)
    /\ HasCapability(active_id, LYRIC_BASIC)
    /\ Len(calls) >= 2
    /\ calls[2].provider = fallback_ids[2]

\* C27: get_song_url_with_fallback and get_song_lyric_with_fallback leave
\* active_id, fallback_ids and the registry as they were, at every step and
\* on every outcome; a successful fallback does not make the fallback
\* provider active.
C27_RoutingLeavesManagerState ==
    [][(args # NoDict \/ args' # NoDict)
         => /\ providers' = providers
            /\ active_id' = active_id
            /\ fallback_ids' = fallback_ids]_vars

\* C27 witness: the second fallback provider served a URL request and the
\* provider that failed the primary call is still the active one.
C27_Witness ==
    /\ pc = "done"
    /\ RoutingCalls
    /\ "fallback_provider" \in DOMAIN ret
    /\ "url" \in DOMAIN ret
    /\ Len(fallback_ids) = 2
    /\ ret.fallback_provider = fallback_ids[2]
    /\ active_id = calls[1].provider
    /\ active_id # ret.fallback_provider

\* C28: a routing request makes at most one call to the active provider
\* plus, per entry of fallback_ids, at most one search_songs call and at most
\* one url/lyric call, and no provider receives the same call twice within a
\* single request.
C28_BoundedNoRetry ==
    RoutingCalls
    => /\ Len(calls) <= 1 + 2 * Len(fallback_ids)
       /\ \A i, j \in 1..Len(calls) :
            (calls[i].provider = calls[j].provider /\ calls[i].op = calls[j].op) => i = j

----------------------------------------------------------------------------
(* switch during a suspended request: C26 *)

\* C26: when switch changes active_id while get_song_url_with_fallback is
\* suspended at an awaited provider call, the provider / original_provider
\* tag of the returned result still names the provider that was active when
\* the request was dispatched, the one that received the primary call.
C26_TagsNameDispatchProvider ==
    (pc = "done" /\ calls # <<>> /\ calls[1].op = "get_song_url")
    => /\ "provider" \in DOMAIN ret => ret.provider = calls[1].provider
       /\ "original_provider" \in DOMAIN ret => ret.original_provider = calls[1].provider

----------------------------------------------------------------------------
(* Stored fallback list: C23 *)

\* `out` lists the str entries of `values` once each, in the order of their
\* first occurrences
FirstOccurrences(values, out) ==
    LET Occurs(id) == {k \in 1..Len(values) : values[k] = [str |-> id]}
    IN  /\ \A i \in 1..Len(out) : Occurs(out[i]) # {}
        /\ \A k \in 1..Len(values) :
             IsStr(values[k]) => \E i \in 1..Len(out) : out[i] = values[k].str
        /\ \A i, j \in 1..Len(out) :
             i < j => MinOf(Occurs(out[i])) < MinOf(Occurs(out[j]))

\* C23: set_fallback_provider_ids stores and returns the input with
\* non-string entries discarded and duplicates removed, keeping each id's
\* first occurrence and the relative order; a following
\* get_fallback_provider_ids returns that same list, so the list read back
\* after a write never contains duplicates.
C23_DedupeOnWrite ==
    [][/\ (pc = "idle" /\ pc' = "done" /\ Get(args', "op", None) = "set_fallback_provider_ids")
            => /\ FirstOccurrences(args'.provider_ids, ret'.value)
               /\ config'.fallback_provider_ids = ret'.value
       /\ (pc = "idle" /\ pc' = "done" /\ Get(args', "op", None) = "get_fallback_provider_ids")
            => /\ ret'.value = config.fallback_provider_ids
               /\ NoDuplicates(ret'.value)
       /\ (pc = "done" /\ Get(args, "op", None) = "set_fallback_provider_ids")
            => config.fallback_provider_ids = ret.value]_vars

\* C23 witness: a list holding a non-string entry and an id twice, the
\* second time behind another id, was written, and two ids came back in the
\* order of their first occurrences.
C23_Witness ==
    /\ pc = "done"
    /\ Get(args, "op", None) = "set_fallback_provider_ids"
    /\ Len(args.provider_ids) = 3
    /\ args.provider_ids[1] = [str |-> "netease"]
    /\ args.provider_ids[2] = [str |-> "qqmusic"]
    /\ args.provider_ids[3] = [str |-> "netease"]
    /\ ret.value = <<"netease", "qqmusic">>
    /\ config.fallback_provider_ids = ret.value

----------------------------------------------------------------------------
(* QQMusicProvider.get_login_status: C21 *)

\* get_login_status has returned and the provider holds a credential with a
\* musicid
StatusDone ==
    /\ pc = "done"
    /\ Get(args, "op", None) = "get_login_status"
    /\ credential # NoDict
    /\ HasMusicId(credential)

Refreshes == {i \in 1..Len(calls) : calls[i].op = "refresh"}

\* C21: QQMusicProvider.get_login_status on an expired credential attempts a
\* refresh before it reports a negative result and refreshes at most once per
\* call; it returns logged_in = true iff the credential was unexpired or that
\* refresh succeeded (the credential it holds on return is unexpired exactly
\* then), and otherwise logged_in = false with expired = true.
C21_RefreshOnceThenReport ==
    StatusDone
    => /\ Cardinality(Refreshes) <= 1
       /\ ret.logged_in <=> ~credential.expired
       /\ ~ret.logged_in
            => /\ ret = [logged_in |-> FALSE, expired |-> TRUE]
               /\ \E i \in 1..Len(calls) : calls[i].op = "can_refresh"

----------------------------------------------------------------------------
(* QQMusicProvider QR login: C30 *)

\* A step in which check_qr_status returned
CheckQrStatusReturned ==
    /\ pc \in {"idle", "qq_check_qrcode"}
    /\ pc' = "done"
    /\ Get(args', "op", None) = "check_qr_status"

\* C30: check_qr_status fails with a structured error and contacts no backend
\* unless a QR code obtained by get_qr_code is pending; only a DONE event that
\* carries a credential installs and persists the credential and clears the
\* pending QR code; every other event, and a backend failure, leaves the
\* credential, the stored credential and the pending QR code unchanged.
C30_QrLoginProtocol ==
    [][/\ (current_qr = None /\ current_qr' # None)
            => /\ pc = "qq_get_qrcode"
               /\ IsTrue(ret', "success")
       /\ pc' = "qq_check_qrcode" => current_qr # None
       /\ CheckQrStatusReturned
            => IF pc = "idle"
               THEN /\ current_qr = None
                    /\ ret' = [success |-> FALSE, error |-> "no QR code available"]
                    /\ calls' = <<>>
                    /\ UNCHANGED <<credential, stored_credential, current_qr>>
               ELSE /\ calls = <<[op |-> "check_qrcode", qr |-> current_qr]>>
                    /\ IF /\ "event" \in DOMAIN response'
                          /\ response'.event = "DONE"
                          /\ response'.credential # NoDict
                       THEN /\ credential' = response'.credential
                            /\ stored_credential' = [musicid |-> credential'.musicid]
                            /\ current_qr' = None
                            /\ ret' = [success |-> TRUE, status |-> "success",
                                       logged_in |-> TRUE,
                                       musicid |-> credential'.musicid]
                       ELSE /\ UNCHANGED <<credential, stored_credential, current_qr>>
                            /\ "logged_in" \notin DOMAIN ret'
                            /\ "event" \in DOMAIN response'
                                 => ret' = [success |-> TRUE,
                                            status |-> status_map(response'.event)]]_vars

\* C30 witness: a pending QR code was checked, the backend answered DONE with
\* a credential, and the credential is installed and stored with no QR code
\* pending.
C30_Witness ==
    /\ pc = "done"
    /\ Get(args, "op", None) = "check_qr_status"
    /\ IsTrue(ret, "logged_in")
    /\ calls # <<>>
    /\ credential # NoDict
    /\ credential = response.credential
    /\ stored_credential = StoredAs(credential)
    /\ current_qr = None

----------------------------------------------------------------------------
(* apply_provider_config and get_provider_selection never raise: C25 *)

\* A step in which get_provider_selection ran
SelectionRan == pc = "idle" /\ pc' = "done" /\ "fallbackProviders" \in DOMAIN ret'

InSeq(x, seq) == \E i \in 1..Len(seq) : seq[i] = x

----------------------------------------------------------------------------
(* Logout: C29 *)

\* The provider holds no credential or session, in memory or stored
LoggedOut(id) ==
    IF id = "qqmusic"
    THEN credential = NoDict /\ stored_credential = NoDict
    ELSE ~netease.logged_in /\ ~netease.stored

LogoutReturned(id) == pc = "idle" /\ pc' = "done" /\ args' = Op(id, "logout")

LoginStatusReturned(id) ==
    pc # "done" /\ pc' = "done" /\ args' = Op(id, "get_login_status")

\* C29: logout of QQMusicProvider or NeteaseProvider clears its credential or
\* session in memory and in the store; while both are clear every
\* get_login_status of that provider reports logged_in = false, only a QR
\* login that completes ends that, and an apply_provider_config that runs
\* meanwhile neither makes that provider the active one nor puts it in
\* fallback_ids.
C29_LogoutUntilQrLogin ==
    [][/\ LogoutReturned("qqmusic")
            => credential' = NoDict /\ stored_credential' = NoDict /\ current_qr' = None
       /\ LogoutReturned("netease")
            => netease' = [logged_in |-> FALSE, stored |-> FALSE, qr_unikey |-> None]
       /\ \A id \in LoginIds :
            /\ (LoggedOut(id) /\ LoginStatusReturned(id))
                 => ret'.logged_in = FALSE /\ login'[id] = "logged_out"
            /\ (LoggedOut(id) /\ ApplyReturned)
                 => /\ id \in RegisteredIds => login[id] = "logged_out"
                    /\ active_id' = id => active_id = id
                    /\ ~InSeq(id, fallback_ids')
       /\ (/\ LoggedOut("qqmusic")
           /\ (credential' # NoDict \/ stored_credential' # NoDict))
            => /\ pc = "qq_check_qrcode"
               /\ IsTrue(ret', "logged_in")
               /\ response'.event = "DONE"
       /\ (LoggedOut("netease") /\ (netease'.logged_in \/ netease'.stored))
            => /\ args' = Op("netease", "check_qr_status")
               /\ IsTrue(ret', "logged_in")
               /\ response'.code = 803]_vars

\* C29 witness: QQ Music had been made the active provider, it then logged
\* out and holds no credential, its get_login_status has answered
\* logged_in = false, and apply_provider_config has run with "qqmusic"
\* configured both as main and as fallback provider: it asked the provider,
\* did not switch (the active id is the one from before) and left it out of
\* fallback_ids.
C29_Witness ==
    /\ pc = "done"
    /\ ret = NoDict
    /\ LoggedOut("qqmusic")
    /\ login["qqmusic"] = "logged_out"
    /\ config.main_provider_id = "qqmusic"
    /\ InSeq("qqmusic", config.fallback_provider_ids)
    /\ InSeq(CallStatus("qqmusic"), calls)
    /\ active_id = "qqmusic"
    /\ ~InSeq("qqmusic", fallback_ids)

====
